---- MODULE Spec2Model ----
(***************************************************************************)
(* Provisioning and teardown of the Amazon Q Developer third-party export  *)
(* resources: the teardown script (cleanup_q_developer_3p_metrics.py), the *)
(* setup script and its Lambda variant, and the Identity Center user       *)
(* export.  The cloud provider is the environment: every provider call     *)
(* answers from the remote state below, or fails with a ClientError.       *)
(***************************************************************************)
EXTENDS Integers, Sequences, FiniteSets, TLC

(***************************************************************************)
(* Bounds of the model.                                                    *)
(***************************************************************************)
\* most targets a schedule rule carries in the initial remote state
MaxTargets == 2
\* targets one list_targets_by_rule response returns (the provider's Limit)
PageLimit == 1
\* object keys of the bucket
MaxKeys == 3
\* object versions one key carries in the initial remote state
MaxVersions == 2
\* entries one S3 listing page returns (the provider's MaxKeys)
PageSize == 2

(***************************************************************************)
(* Fixed resource names.                                                   *)
(***************************************************************************)
rules_to_delete ==
    <<"QDeveloper3PSetupSchedule", "IAMIdentityCenterUserExtractSchedule">>

functions_to_delete == <<"QDeveloper3PSetup", "IAMIdentityCenterUserExtract">>

roles_to_delete ==
    << [role_name |-> "lambda-q-developer-role",
        policy_name |-> "QDeveloper3PPermissions"],
       [role_name |-> "lambda-iam-identity-center-extract-role",
        policy_name |-> "IAMIdentityCenterExtractPermissions"] >>

BucketNames == {"q-metrics"}

\* the bucket names of a setup run that is followed by a cleanup run
LifecycleBucketNames == {"q-metrics", "q-metrics-2"}

\* a cleanup that uses the trail name of setup
cleanup_trail_name_of_setup(b) == "QDeveloper3PTrail"

\* the trail name delete_cloudtrail computes from the bucket name
cleanup_trail_name(b) == "q-developer-3p-trail-" \o b

\* the trail name setup_cloudtrail uses by default
setup_trail_name == "QDeveloper3PTrail"

RuleNames == {rules_to_delete[k] : k \in DOMAIN rules_to_delete}
FunctionNames == {functions_to_delete[k] : k \in DOMAIN functions_to_delete}
RoleNames == {roles_to_delete[k].role_name : k \in DOMAIN roles_to_delete}
TrailNames ==
    {setup_trail_name} \cup {cleanup_trail_name(b) : b \in BucketNames \cup LifecycleBucketNames}

(***************************************************************************)
(* State.                                                                  *)
(***************************************************************************)
VARIABLES
    entry,            \* the method the caller invoked
    pc,               \* the statement the running script is at
    bucket_name,      \* self.bucket_name
    calls,            \* the provider calls made so far, in order
    last,             \* the latest provider call, with the provider's answer
    out,              \* the lines the latest step printed
    rules,            \* remote: schedule rule -> [exists, targets]
    functions,        \* remote: function name -> exists
    roles,            \* remote: role -> [exists, policy]
    trails,           \* remote: trail name -> [exists, bucket, selectors, logging]
    bucket,           \* remote: the bucket bucket_name
    idx,              \* position of the for loop over the fixed name lists
    target_ids,       \* the Ids read from the list_targets_by_rule response
    page,             \* the listing page the paginator loop is processing
    marker,           \* the paginator's continuation position
    more,             \* the last listing response was truncated
    objects_deleted,  \* the counter empty_s3_bucket reports
    variant,          \* which script runs: "cli", "lambda" (setup) or "extract"
    event,            \* the handler's event, or the parsed command line
    region,           \* self.region
    export_users,     \* run_setup's export_users argument
    steps,            \* the methods run_setup has called, with what they returned
    setup_result,     \* what run_setup returned
    response,         \* what the handler returned
    instances,        \* remote: an Identity Center instance exists
    directory,        \* remote: the pages list_users answers with
    users,            \* the users list built by the pagination loop
    next_token,       \* the loop's next_token
    csv,              \* the CSV rows written to the buffer or the temporary file
    temp_file,        \* the temporary file of the file-based export
    stored,           \* remote: the object at users/<output_file>
    export_result     \* what the export returned

setupVars == <<variant, event, region, export_users, steps, setup_result, response>>
exportVars == <<instances, directory, users, next_token, csv, temp_file, stored, export_result>>
cleanupLocals == <<idx, target_ids, page, marker, more, objects_deleted>>

vars == <<entry, pc, bucket_name, calls, last, out, rules, functions, roles, trails, bucket,
          cleanupLocals, setupVars, exportVars>>

remoteVars == <<rules, functions, roles, trails, bucket>>
pageVars == <<page, marker, more, objects_deleted>>

(***************************************************************************)
(* Helpers.                                                                *)
(***************************************************************************)
Call(op, name) == [op |-> op, name |-> name]
NoCall == [op |-> "", name |-> "", res |-> ""]
Line(kind, what, name) == [kind |-> kind, what |-> what, name |-> name]

\* a ClientError whose code is none of the not-found codes
OtherError == "AccessDenied"

\* The provider's answer to a call on a resource: the injected error, the
\* not-found code of the service when the resource is absent, else success.
Answer(fault, present, notFound) ==
    IF fault THEN OtherError ELSE IF ~present THEN notFound ELSE "ok"

\* a provider call is made and answered
Made(op, name, res) ==
    /\ calls' = Append(calls, Call(op, name))
    /\ last' = [op |-> op, name |-> name, res |-> res]

\* the n smallest elements of a set of numbers
FirstN(S, n) == {x \in S : Cardinality({y \in S : y < x}) < n}

Max(S) == CHOOSE x \in S : \A y \in S : y <= x

(***************************************************************************)
(* The provider, as far as the scripts observe it.                         *)
(***************************************************************************)
NoRule == [exists |-> FALSE, targets |-> {}]
RuleStates == {NoRule} \cup {[exists |-> TRUE, targets |-> 1..n] : n \in 0..MaxTargets}

NoRole == [exists |-> FALSE, policy |-> FALSE]
RoleStates == {NoRole} \cup {[exists |-> TRUE, policy |-> p] : p \in BOOLEAN}

NoTrail == [exists |-> FALSE, bucket |-> "", selectors |-> {}, logging |-> FALSE]

Keys == 1..MaxKeys
Entry(k, v, m) == [Key |-> k, VersionId |-> v, IsMarker |-> m]

\* the version history of one key in a bucket with versioning enabled: n
\* object versions, and possibly a delete marker as the latest version
KeyHistory(k, n, m) ==
    {Entry(k, v, FALSE) : v \in 1..n} \cup (IF m THEN {Entry(k, n + 1, TRUE)} ELSE {})

\* a bucket policy is the set of its statements; a bucket without one has none
NoPolicy == {}

NoBucket == [exists |-> FALSE, versioned |-> FALSE, entries |-> {}, policy |-> NoPolicy]

\* buckets without versioning hold the null version (0) of each key they have
UnversionedBuckets ==
    { [exists |-> TRUE, versioned |-> FALSE, policy |-> NoPolicy,
       entries |-> {Entry(k, 0, FALSE) : k \in S}] : S \in SUBSET Keys }

VersionedBuckets ==
    { [exists |-> TRUE, versioned |-> TRUE, policy |-> NoPolicy,
       entries |-> UNION {KeyHistory(k, h[k][1], h[k][2]) : k \in Keys}]
        : h \in [Keys -> (0..MaxVersions) \X BOOLEAN] }

BucketStates == {NoBucket} \cup UnversionedBuckets \cup VersionedBuckets

\* the latest version of each key, the one a listing without versions shows
IsLatest(b, e) == \A f \in b.entries : f.Key = e.Key => f.VersionId <= e.VersionId
CurrentKeys(b) == {e.Key : e \in {f \in b.entries : IsLatest(b, f) /\ ~f.IsMarker}}

\* list_objects_v2: the keys after the continuation position, one page of them
ListObjectsPage(b, after) ==
    FirstN({k \in CurrentKeys(b) : k > after.Key}, PageSize)
ListObjectsTruncated(b, after) ==
    {k \in CurrentKeys(b) : k > after.Key} # ListObjectsPage(b, after)

\* list_object_versions orders by key, and newest first within a key
Before(e, f) == e.Key < f.Key \/ (e.Key = f.Key /\ e.VersionId > f.VersionId)
NoMarker == [Key |-> 0, VersionId |-> 0]
VersionsAfter(b, after) ==
    {e \in b.entries : Before(after, e)}
ListVersionsPage(b, after) ==
    LET rest == VersionsAfter(b, after)
    IN {e \in rest : Cardinality({f \in rest : Before(f, e)}) < PageSize}
ListVersionsTruncated(b, after) ==
    VersionsAfter(b, after) # ListVersionsPage(b, after)
LastOf(es) == CHOOSE e \in es : \A f \in es : f = e \/ Before(f, e)

\* delete_objects: an object named without a VersionId is removed from a
\* bucket without versioning and hidden by a new delete marker in one with
\* versioning; an object named with its VersionId is removed for good
FreshVersionId(b) == 1 + Max({0} \cup {e.VersionId : e \in b.entries})
DeleteObjectsEffect(b, objs) ==
    LET plain == {o.Key : o \in {x \in objs : "VersionId" \notin DOMAIN x}}
        exact == {x \in objs : "VersionId" \in DOMAIN x}
        kept == {e \in b.entries :
                    /\ [Key |-> e.Key, VersionId |-> e.VersionId] \notin exact
                    /\ (b.versioned \/ e.Key \notin plain)}
        marks == IF b.versioned
                 THEN {Entry(k, FreshVersionId(b), TRUE) : k \in plain}
                 ELSE {}
    IN [b EXCEPT !.entries = kept \cup marks]

(***************************************************************************)
(* The values the variables of a script hold while another script runs.    *)
(***************************************************************************)
None == "None"

\* Python's rendering of a boolean
Py(b) == IF b THEN "True" ELSE "False"

\* a test that takes only a missing value for false
is_None(x) == x = None

\* not x, for a string or None
not_(x) == x = None \/ x = ""

NoObject == <<>>

SetupIdle ==
    /\ variant = "none"
    /\ event = [bucket_name |-> ""]
    /\ region = ""
    /\ export_users = FALSE
    /\ steps = <<>>
    /\ setup_result = "pending"
    /\ response = [statusCode |-> 0]

ExportIdle ==
    /\ instances = FALSE
    /\ directory = << <<>> >>
    /\ users = <<>>
    /\ next_token = None
    /\ csv = <<>>
    /\ temp_file = "none"
    /\ stored = NoObject
    /\ export_result = [success |-> FALSE, message |-> "pending"]

CleanupIdle ==
    /\ idx = 1
    /\ target_ids = {}
    /\ page = {} /\ marker = NoMarker /\ more = FALSE /\ objects_deleted = 0

(***************************************************************************)
(* The identity directory.                                                 *)
(***************************************************************************)
\* most pages the directory answers list_users with
MaxPages == 3

user_full ==
    [UserId |-> "u-1", UserName |-> "alice",
     Name |-> [GivenName |-> "Alice", FamilyName |-> "Ames"],
     Emails |-> <<[Value |-> "alice@work", Primary |-> TRUE]>>]

user_bare == [UserId |-> "u-2", UserName |-> "bob"]

user_second_primary ==
    [UserId |-> "u-3", UserName |-> "carol",
     Name |-> [GivenName |-> "Carol"],
     Emails |-> <<[Value |-> "carol@home"], [Value |-> "carol@work", Primary |-> TRUE]>>]

user_no_primary ==
    [UserId |-> "u-4", UserName |-> "dan",
     Name |-> [FamilyName |-> "Dunn"],
     Emails |-> <<[Value |-> "dan@home", Primary |-> FALSE]>>]

user_two_primary ==
    [UserName |-> "erin",
     Emails |-> <<[Value |-> "erin@work", Primary |-> TRUE],
                  [Value |-> "erin@home", Primary |-> TRUE]>>]

\* the Users lists one list_users response can hold
PageShapes ==
    { <<>>, <<user_full>>,
      <<user_bare, user_second_primary, user_no_primary, user_two_primary>> }

Directories == UNION {[1..n -> PageShapes] : n \in 1..MaxPages}

identity_store_id == "d-1"
TokenOf(k) == "page-" \o ToString(k)

\* the page a list_users request asks for: the first one without a NextToken
PageNumber(req) ==
    IF "NextToken" \in DOMAIN req /\ \E k \in 1..Len(directory) : TokenOf(k) = req.NextToken
    THEN CHOOSE k \in 1..Len(directory) : TokenOf(k) = req.NextToken
    ELSE 1

\* the response carries a NextToken exactly when a page follows
list_users_response(req) ==
    LET k == PageNumber(req)
    IN IF k < Len(directory)
       THEN [Users |-> directory[k], NextToken |-> TokenOf(k + 1)]
       ELSE [Users |-> directory[k]]

(***************************************************************************)
(* The users export: extract_users of the extraction Lambda and            *)
(* export_identity_center_users of the setup script and the setup Lambda.  *)
(***************************************************************************)
\* dict.get(key, default)
Get(d, key, default) == IF key \in DOMAIN d THEN d[key] ELSE default

Min(S) == CHOOSE x \in S : \A y \in S : x <= y

\* a generator that yields the last entry flagged Primary
last_primary_email(user) ==
    LET emails == Get(user, "Emails", <<>>)
        primary == {k \in DOMAIN emails : Get(emails[k], "Primary", FALSE)}
    IN IF primary = {} THEN ""
       ELSE emails[CHOOSE k \in primary : \A j \in primary : j <= k].Value

\* next((e['Value'] for e in user.get('Emails', []) if e.get('Primary', False)), '')
primary_email(user) ==
    LET emails == Get(user, "Emails", <<>>)
        primary == {k \in DOMAIN emails : Get(emails[k], "Primary", FALSE)}
    IN IF primary = {} THEN "" ELSE emails[Min(primary)].Value

fieldnames == <<"UserId", "Username", "Email", "GivenName", "FamilyName">>

\* the dict handed to writer.writerow
user_row(user) ==
    [UserId |-> Get(user, "UserId", ""),
     Username |-> Get(user, "UserName", ""),
     Email |-> primary_email(user),
     GivenName |-> Get(Get(user, "Name", <<>>), "GivenName", ""),
     FamilyName |-> Get(Get(user, "Name", <<>>), "FamilyName", "")]

\* DictWriter writes the values of a row in the order of fieldnames
csv_line(row) == [k \in DOMAIN fieldnames |-> row[fieldnames[k]]]

\* writeheader, then one writerow for each user
csv_rows(us) == <<fieldnames>> \o [k \in DOMAIN us |-> csv_line(user_row(us[k]))]

s3_key == "users/users.csv"

\* a loop that never passes the token on
list_users_request_first(token) ==
    [op |-> "list_users", name |-> identity_store_id]

\* the request the loop sends: NextToken is passed only when next_token is set
list_users_request(token) ==
    IF ~not_(token)
    THEN [op |-> "list_users", name |-> identity_store_id, NextToken |-> token]
    ELSE [op |-> "list_users", name |-> identity_store_id]

\* a loop that keeps the users of the latest page only
replace_users(us, resp) == Get(resp, "Users", <<>>)

\* users.extend(response.get('Users', []))
extend_users(us, resp) == us \o Get(resp, "Users", <<>>)

\* what the export returns: a dict in the extraction Lambda, a boolean in the
\* setup scripts
export_success(n) ==
    IF variant = "extract"
    THEN [success |-> TRUE, message |-> "Successfully exported", user_count |-> n]
    ELSE [success |-> TRUE]

export_failure(message) ==
    IF variant = "extract"
    THEN [success |-> FALSE, message |-> message]
    ELSE [success |-> FALSE]

\* an export with the except Exception clause only
export_except_generic(outcome) == export_failure("Unexpected error exporting users")

\* the except clauses of the export: ClientError, then Exception
export_except(outcome) ==
    IF outcome = "ClientError"
    THEN export_failure("Error exporting IAM Identity Center users")
    ELSE export_failure("Unexpected error exporting users")

\* a response that answers 200 whatever the result
extract_response_ok(result) ==
    [statusCode |-> 200,
     message |-> result.message,
     user_count |-> Get(result, "user_count", 0)]

\* the response the extraction handler builds from the result
extract_response(result) ==
    [statusCode |-> IF result.success THEN 200 ELSE 500,
     message |-> result.message,
     user_count |-> Get(result, "user_count", 0)]

\* the response the setup handler builds from run_setup's result
setup_response(result) ==
    [statusCode |-> IF result THEN 200 ELSE 500,
     message |-> IF result THEN "Setup completed successfully" ELSE "Setup failed"]

missing_bucket_response ==
    [statusCode |-> 400, message |-> "Missing required parameter: bucket_name"]

\* a method of run_setup is called; it returns
Invoke(method) == Append(steps, [method |-> method, returned |-> "pending"])
Returned(value) == [steps EXCEPT ![Len(steps)].returned = value]

\* run_setup returns: to the handler, which answers, or to main
SetupReturns(value) ==
    /\ setup_result' = Py(value)
    /\ IF entry = "setup_lambda_handler"
       THEN response' = setup_response(value) /\ pc' = "handler_done"
       ELSE pc' = "main_done" /\ UNCHANGED response

\* a run_setup that returns what the export step returned
after_export_strict(exported) == exported

\* what run_setup returns once the export step has returned
after_export(exported) == TRUE

\* the closing lines of run_setup
run_setup_report(exported) ==
    (IF export_users /\ ~exported THEN <<Line("failed", "export", s3_key)>> ELSE <<>>)
        \o <<Line("completed", "setup", bucket_name)>>
        \o (IF export_users THEN <<Line("users_exported", "s3", s3_key)>> ELSE <<>>)

\* the export returns to whoever called it
ExportReturns(result, lines) ==
    /\ export_result' = result
    /\ IF entry = "extract_lambda_handler"
       THEN /\ response' = extract_response(result)
            /\ pc' = "handler_done"
            /\ out' = lines
            /\ UNCHANGED <<steps, setup_result>>
       ELSE IF entry = "export_identity_center_users"
       THEN /\ pc' = "export_done"
            /\ out' = lines
            /\ UNCHANGED <<steps, setup_result, response>>
       ELSE /\ steps' = Returned(Py(result.success))
            /\ out' = lines \o run_setup_report(result.success)
            /\ SetupReturns(after_export(result.success))

Outcomes == {"ok", "ClientError", "Exception"}

export_list_instances ==
    /\ pc = "list_instances"
    /\ \E outcome \in Outcomes :
        /\ Made("list_instances", "sso-admin", outcome)
        /\ IF outcome = "ok" /\ instances
           THEN /\ users' = <<>>
                /\ next_token' = None
                /\ pc' = "list_users"
                /\ out' = <<Line("found", "instance", identity_store_id)>>
                /\ UNCHANGED <<steps, setup_result, response, export_result>>
           ELSE /\ IF outcome = "ok"
                   THEN ExportReturns(export_failure("No IAM Identity Center instances found"),
                                      <<Line("none", "instance", "")>>)
                   ELSE ExportReturns(export_except(outcome), <<Line("error", "export", outcome)>>)
                /\ UNCHANGED <<users, next_token>>
    /\ UNCHANGED <<entry, bucket_name, remoteVars, cleanupLocals, variant, event, region,
                   export_users, instances, directory, csv, temp_file, stored>>

export_list_users ==
    /\ pc = "list_users"
    /\ \E outcome \in Outcomes :
        LET req == list_users_request(next_token)
            resp == list_users_response(req)
        IN /\ calls' = Append(calls, req)
           /\ last' = [op |-> "list_users", name |-> identity_store_id, res |-> outcome]
           /\ IF outcome = "ok"
              THEN /\ users' = extend_users(users, resp)
                   /\ next_token' = Get(resp, "NextToken", None)
                   /\ pc' = IF not_(next_token') THEN "write_csv" ELSE "list_users"
                   /\ out' = <<>>
                   /\ UNCHANGED <<steps, setup_result, response, export_result>>
              ELSE /\ ExportReturns(export_except(outcome), <<Line("error", "export", outcome)>>)
                   /\ UNCHANGED <<users, next_token>>
    /\ UNCHANGED <<entry, bucket_name, remoteVars, cleanupLocals, variant, event, region,
                   export_users, instances, directory, csv, temp_file, stored>>

\* The CSV is written to a StringIO buffer in the Lambdas and to a temporary
\* file in the setup script.  The setup Lambda does not import io: the name
\* lookup raises NameError, which the except Exception clause turns into a
\* failure.  Writing to the temporary file can fail with an OSError; the
\* finally clause then closes the file and removes it unless os.remove fails.
export_write_csv ==
    /\ pc = "write_csv"
    /\ IF variant = "lambda"
       THEN /\ ExportReturns(export_except("NameError"), <<Line("error", "export", "NameError")>>)
            /\ UNCHANGED <<csv, temp_file>>
       ELSE IF variant = "extract"
       THEN /\ csv' = csv_rows(users)
            /\ pc' = "upload"
            /\ out' = <<>>
            /\ UNCHANGED <<temp_file, steps, setup_result, response, export_result>>
       ELSE \E written \in BOOLEAN, removed \in BOOLEAN :
            IF written
            THEN /\ removed
                 /\ csv' = csv_rows(users)
                 /\ temp_file' = "closed"
                 /\ pc' = "upload"
                 /\ out' = <<>>
                 /\ UNCHANGED <<steps, setup_result, response, export_result>>
            ELSE /\ temp_file' = IF removed THEN "removed" ELSE "closed"
                 /\ ExportReturns(export_except("OSError"), <<Line("error", "export", "OSError")>>)
                 /\ UNCHANGED csv
    /\ UNCHANGED <<entry, bucket_name, calls, last, remoteVars, cleanupLocals, variant, event,
                   region, export_users, instances, directory, users, next_token, stored>>

\* put_object in the Lambdas, upload_file in the setup script.  In the setup
\* script a ClientError of the upload is caught next to the call and any
\* other exception leaves through the finally clause, which removes the
\* temporary file unless os.remove fails.
export_upload ==
    /\ pc = "upload"
    /\ \E outcome \in Outcomes, removed \in BOOLEAN :
        LET op == IF variant = "cli" THEN "upload_file" ELSE "put_object"
            res == IF outcome = "ok" /\ ~bucket.exists THEN "ClientError" ELSE outcome
        IN /\ variant # "cli" => removed
           /\ Made(op, s3_key, res)
           /\ stored' = IF res = "ok" THEN csv ELSE stored
           /\ temp_file' = IF variant # "cli" THEN temp_file
                           ELSE IF removed THEN "removed" ELSE "closed"
           /\ IF res = "ok"
              THEN ExportReturns(export_success(Len(users)), <<Line("exported", "s3", s3_key)>>)
              ELSE IF variant = "cli" /\ res = "ClientError"
              THEN ExportReturns(export_failure("upload"), <<Line("error", "upload", res)>>)
              ELSE ExportReturns(export_except(res), <<Line("error", "export", res)>>)
    /\ UNCHANGED <<entry, bucket_name, rules, functions, roles, trails, bucket, cleanupLocals,
                   variant, event, region, export_users, instances, directory, users,
                   next_token, csv>>

(***************************************************************************)
(* Setup: run_setup of the setup script ("cli") and of the setup Lambda    *)
(* ("lambda"), with the steps create_s3_bucket, the manual pause of the    *)
(* script, setup_cloudtrail and the optional export.                       *)
(***************************************************************************)
Regions == {"us-east-1", "us-west-2"}

setupFrame == <<entry, variant, event, rules, functions, roles, cleanupLocals, exportVars>>

\* the policy document create_s3_bucket applies, by its statement ids
bucket_policy(b) ==
    { [Sid |-> "AllowAmazonQAccess", Effect |-> "Allow", Principal |-> "q.amazonaws.com",
       Action |-> {"s3:GetObject", "s3:ListBucket", "s3:PutObject"},
       Resource |-> {"arn:aws:s3:::" \o b, "arn:aws:s3:::" \o b \o "/*"},
       Condition |-> {}],
      [Sid |-> "AWSCloudTrailAclCheck", Effect |-> "Allow",
       Principal |-> "cloudtrail.amazonaws.com",
       Action |-> {"s3:GetBucketAcl"},
       Resource |-> {"arn:aws:s3:::" \o b},
       Condition |-> {}],
      [Sid |-> "AWSCloudTrailWrite", Effect |-> "Allow",
       Principal |-> "cloudtrail.amazonaws.com",
       Action |-> {"s3:PutObject"},
       Resource |-> {"arn:aws:s3:::" \o b \o "/cloudtrail/*"},
       Condition |-> {<<"StringEquals", "s3:x-amz-acl", "bucket-owner-full-control">>}] }

\* a policy someone else gave the bucket
custom_policy ==
    { [Sid |-> "PublicRead", Effect |-> "Allow", Principal |-> "*",
       Action |-> {"s3:GetObject"},
       Resource |-> {"arn:aws:s3:::q-metrics/*"},
       Condition |-> {}] }

\* a put_bucket_policy that adds the statements to the ones the bucket has
merge_bucket_policy(old, new) == old \cup new

\* PutBucketPolicy replaces the bucket's policy document
put_bucket_policy(old, new) == new

\* the method run_setup calls after method, or "return"
NextMethod(method) ==
    IF method = "create_s3_bucket"
    THEN IF variant = "cli" THEN "display_q_developer_instructions" ELSE "setup_cloudtrail"
    ELSE IF method = "display_q_developer_instructions" THEN "setup_cloudtrail"
    ELSE IF method = "setup_cloudtrail" /\ export_users THEN "export_identity_center_users"
    ELSE "return"

FirstStatement(method) ==
    CASE method = "create_s3_bucket" -> "setup_head_bucket"
      [] method = "display_q_developer_instructions" -> "display"
      [] method = "setup_cloudtrail" -> "describe_trails"
      [] method = "export_identity_center_users" -> "list_instances"

\* run_setup goes on after method returned value
Continue(method, value, lines) ==
    IF NextMethod(method) = "return"
    THEN /\ steps' = Returned(value)
         /\ out' = lines \o run_setup_report(TRUE)
         /\ SetupReturns(TRUE)
    ELSE /\ steps' = Append(Returned(value),
                            [method |-> NextMethod(method), returned |-> "pending"])
         /\ pc' = FirstStatement(NextMethod(method))
         /\ out' = lines
         /\ UNCHANGED <<setup_result, response>>

\* a run_setup that ignores what its steps return
run_setup_goes_on(method) == FALSE

\* if not self.create_s3_bucket(): return False, and the same for setup_cloudtrail
run_setup_aborts(method) == TRUE

\* a step without its except clause: the ClientError leaves the method
MethodRaises(method, lines) ==
    /\ pc' = "raised"
    /\ out' = lines
    /\ UNCHANGED <<steps, setup_result, response>>

\* a step that is tried again from its first statement when it fails
MethodRetries(method, lines) ==
    /\ pc' = FirstStatement(method)
    /\ out' = lines
    /\ UNCHANGED <<steps, setup_result, response>>

\* a required step returns False
MethodFails(method, lines) ==
    IF run_setup_aborts(method)
    THEN /\ steps' = Returned("False")
         /\ out' = lines \o <<Line("aborted", "setup", method)>>
         /\ SetupReturns(FALSE)
    ELSE Continue(method, "False", lines)

\* main of the setup script: argparse supplies every argument
setup_main ==
    /\ pc = "setup_main"
    /\ bucket_name' = event.bucket_name
    /\ region' = event.region
    /\ export_users' = event.export_users
    /\ pc' = "setup_init"
    /\ out' = <<>>
    /\ UNCHANGED <<calls, last, steps, setup_result, response, bucket, trails, setupFrame>>

\* lambda_handler of the setup Lambda, up to the constructor call
setup_lambda_handler ==
    /\ pc = "setup_lambda_handler"
    /\ out' = <<>>
    /\ IF not_(Get(event, "bucket_name", None))
       THEN /\ response' = missing_bucket_response
            /\ pc' = "handler_done"
            /\ UNCHANGED <<bucket_name, region, export_users>>
       ELSE /\ bucket_name' = event.bucket_name
            /\ region' = Get(event, "region", "us-east-1")
            /\ export_users' = Get(event, "export_users", FALSE)
            /\ pc' = "setup_init"
            /\ UNCHANGED response
    /\ UNCHANGED <<calls, last, steps, setup_result, bucket, trails, setupFrame>>

\* QDeveloper3PSetup.__init__ asks STS for the account id; an error of that
\* call is handled nowhere.  Then run_setup starts with create_s3_bucket.
setup_init ==
    /\ pc = "setup_init"
    /\ \E fault \in BOOLEAN :
        /\ Made("get_caller_identity", "sts", Answer(fault, TRUE, ""))
        /\ IF fault
           THEN pc' = "raised" /\ out' = <<>> /\ UNCHANGED steps
           ELSE /\ pc' = FirstStatement("create_s3_bucket")
                /\ steps' = Invoke("create_s3_bucket")
                /\ out' = <<Line("initializing", "setup", region)>>
    /\ UNCHANGED <<bucket_name, region, export_users, setup_result, response, bucket, trails,
                   setupFrame>>

\* a probe that takes every error for an absent bucket
creates_on_any(code) == TRUE

\* the error codes of head_bucket on which create_s3_bucket creates the bucket
creates_on(code) == code = "404"

create_s3_bucket_head_bucket ==
    /\ pc = "setup_head_bucket"
    /\ \E fault \in BOOLEAN :
        LET res == Answer(fault, bucket.exists, "404")
        IN /\ Made("head_bucket", bucket_name, res)
           /\ IF res = "ok"
              THEN /\ pc' = "put_bucket_policy"
                   /\ out' = <<Line("exists", "bucket", bucket_name)>>
                   /\ UNCHANGED <<steps, setup_result, response>>
              ELSE IF creates_on(res)
              THEN /\ pc' = "create_bucket"
                   /\ out' = <<>>
                   /\ UNCHANGED <<steps, setup_result, response>>
              ELSE MethodFails("create_s3_bucket", <<Line("error", "bucket", res)>>)
    /\ UNCHANGED <<bucket_name, region, export_users, bucket, trails, setupFrame>>

\* the create_bucket call: without CreateBucketConfiguration in us-east-1
create_bucket_request(reg) ==
    IF reg = "us-east-1"
    THEN [op |-> "create_bucket", name |-> bucket_name]
    ELSE [op |-> "create_bucket", name |-> bucket_name,
          CreateBucketConfiguration |-> [LocationConstraint |-> reg]]

\* S3 refuses a location constraint that does not fit the endpoint's region
create_bucket_answer(fault, req) ==
    LET constraint == IF "CreateBucketConfiguration" \in DOMAIN req
                      THEN req.CreateBucketConfiguration.LocationConstraint
                      ELSE None
    IN IF fault THEN OtherError
       ELSE IF bucket.exists THEN "BucketAlreadyOwnedByYou"
       ELSE IF region = "us-east-1" /\ constraint # None THEN "InvalidLocationConstraint"
       ELSE IF region # "us-east-1" /\ constraint # region
            THEN "IllegalLocationConstraintException"
       ELSE "ok"

create_s3_bucket_create_bucket ==
    /\ pc = "create_bucket"
    /\ \E fault \in BOOLEAN :
        LET req == create_bucket_request(region)
            res == create_bucket_answer(fault, req)
        IN /\ calls' = Append(calls, req)
           /\ last' = [op |-> "create_bucket", name |-> bucket_name, res |-> res]
           /\ IF res = "ok"
              THEN /\ bucket' = [NoBucket EXCEPT !.exists = TRUE]
                   /\ pc' = "put_bucket_policy"
                   /\ out' = <<Line("created", "bucket", bucket_name)>>
                   /\ UNCHANGED <<steps, setup_result, response>>
              ELSE /\ MethodFails("create_s3_bucket", <<Line("error", "bucket", res)>>)
                   /\ UNCHANGED bucket
    /\ UNCHANGED <<bucket_name, region, export_users, trails, setupFrame>>

create_s3_bucket_put_bucket_policy ==
    /\ pc = "put_bucket_policy"
    /\ \E fault \in BOOLEAN :
        LET res == Answer(fault, bucket.exists, "NoSuchBucket")
        IN /\ Made("put_bucket_policy", bucket_name, res)
           /\ IF res = "ok"
              THEN /\ bucket' = [bucket EXCEPT !.policy =
                                       put_bucket_policy(@, bucket_policy(bucket_name))]
                   /\ Continue("create_s3_bucket", "True",
                               <<Line("policy", "bucket", bucket_name)>>)
              ELSE /\ MethodFails("create_s3_bucket", <<Line("error", "bucket", res)>>)
                   /\ UNCHANGED bucket
    /\ UNCHANGED <<bucket_name, region, export_users, trails, setupFrame>>

\* the script prints the console instructions and waits for Enter
display_q_developer_instructions ==
    /\ pc = "display"
    /\ Continue("display_q_developer_instructions", "True",
                <<Line("instructions", "console", bucket_name)>>)
    /\ UNCHANGED <<bucket_name, region, export_users, calls, last, bucket, trails, setupFrame>>

\* a loop over trailList that finds no match
trail_exists_never(trail_name) == FALSE

\* the loop over trails.get('trailList', []): a trail of that name is listed
trail_exists(trail_name) == trails[trail_name].exists

setup_cloudtrail_describe_trails ==
    /\ pc = "describe_trails"
    /\ \E fault \in BOOLEAN :
        LET res == Answer(fault, TRUE, "")
        IN /\ Made("describe_trails", "", res)
           /\ IF res = "ok"
              THEN /\ pc' = IF trail_exists(setup_trail_name)
                            THEN "put_event_selectors" ELSE "create_trail"
                   /\ out' = IF trail_exists(setup_trail_name)
                             THEN <<Line("exists", "trail", setup_trail_name)>> ELSE <<>>
                   /\ UNCHANGED <<steps, setup_result, response>>
              ELSE MethodFails("setup_cloudtrail", <<Line("error", "trail", res)>>)
    /\ UNCHANGED <<bucket_name, region, export_users, bucket, trails, setupFrame>>

create_trail_request ==
    [op |-> "create_trail", name |-> setup_trail_name, S3BucketName |-> bucket_name,
     S3KeyPrefix |-> "cloudtrail", IsMultiRegionTrail |-> TRUE,
     EnableLogFileValidation |-> TRUE]

\* CloudTrail refuses a second trail of the same name and a missing bucket
create_trail_answer(fault) ==
    IF fault THEN OtherError
    ELSE IF trails[setup_trail_name].exists THEN "TrailAlreadyExistsException"
    ELSE IF ~bucket.exists THEN "S3BucketDoesNotExistException"
    ELSE "ok"

setup_cloudtrail_create_trail ==
    /\ pc = "create_trail"
    /\ \E fault \in BOOLEAN :
        LET res == create_trail_answer(fault)
        IN /\ calls' = Append(calls, create_trail_request)
           /\ last' = [op |-> "create_trail", name |-> setup_trail_name, res |-> res]
           /\ IF res = "ok"
              THEN /\ trails' = [trails EXCEPT ![setup_trail_name] =
                                    [NoTrail EXCEPT !.exists = TRUE, !.bucket = bucket_name]]
                   /\ pc' = "put_event_selectors"
                   /\ out' = <<Line("created", "trail", setup_trail_name)>>
                   /\ UNCHANGED <<steps, setup_result, response>>
              ELSE /\ MethodFails("setup_cloudtrail", <<Line("error", "trail", res)>>)
                   /\ UNCHANGED trails
    /\ UNCHANGED <<bucket_name, region, export_users, bucket, setupFrame>>

\* the three selectors of data events, one for each resource type
advanced_event_selectors ==
    { [Name |-> "Log CodeWhisperer events", eventCategory |-> "Data",
       resources_type |-> "AWS::CodeWhisperer::Profile"],
      [Name |-> "Log Q Developer Integration events", eventCategory |-> "Data",
       resources_type |-> "AWS::QDeveloper::Integration"],
      [Name |-> "Log CodeWhisperer Customization events", eventCategory |-> "Data",
       resources_type |-> "AWS::CodeWhisperer::Customization"] }

setup_cloudtrail_put_event_selectors ==
    /\ pc = "put_event_selectors"
    /\ \E fault \in BOOLEAN :
        LET res == Answer(fault, trails[setup_trail_name].exists, "TrailNotFoundException")
        IN /\ Made("put_event_selectors", setup_trail_name, res)
           /\ IF res = "ok"
              THEN /\ trails' = [trails EXCEPT ![setup_trail_name].selectors = advanced_event_selectors]
                   /\ pc' = "start_logging"
                   /\ out' = <<Line("configured", "trail", setup_trail_name)>>
                   /\ UNCHANGED <<steps, setup_result, response>>
              ELSE /\ MethodFails("setup_cloudtrail", <<Line("error", "trail", res)>>)
                   /\ UNCHANGED trails
    /\ UNCHANGED <<bucket_name, region, export_users, bucket, setupFrame>>

setup_cloudtrail_start_logging ==
    /\ pc = "start_logging"
    /\ \E fault \in BOOLEAN :
        LET res == Answer(fault, trails[setup_trail_name].exists, "TrailNotFoundException")
        IN /\ Made("start_logging", setup_trail_name, res)
           /\ IF res = "ok"
              THEN /\ trails' = [trails EXCEPT ![setup_trail_name].logging = TRUE]
                   /\ Continue("setup_cloudtrail", "True",
                               <<Line("started", "trail", setup_trail_name)>>)
              ELSE /\ MethodFails("setup_cloudtrail", <<Line("error", "trail", res)>>)
                   /\ UNCHANGED trails
    /\ UNCHANGED <<bucket_name, region, export_users, bucket, setupFrame>>

\* lambda_handler of the extraction Lambda, up to the call of extract_users;
\* the extractor's constructor calls no provider
extract_lambda_handler ==
    /\ pc = "extract_lambda_handler"
    /\ out' = <<>>
    /\ IF not_(Get(event, "bucket_name", None))
       THEN /\ response' = missing_bucket_response
            /\ pc' = "handler_done"
            /\ UNCHANGED <<bucket_name, region>>
       ELSE /\ bucket_name' = event.bucket_name
            /\ region' = Get(event, "region", "us-east-1")
            /\ pc' = "list_instances"
            /\ UNCHANGED response
    /\ UNCHANGED <<calls, last, steps, setup_result, export_users, bucket, trails, setupFrame>>

(***************************************************************************)
(* run_cleanup calls the six deletion methods in a fixed order; each of    *)
(* them can also be called on its own.                                     *)
(***************************************************************************)
\* a run_cleanup that deletes the functions before the rules
CleanupMethods_functions_first ==
    <<"delete_lambda_functions", "delete_eventbridge_rules",
      "delete_iam_roles_and_policies", "delete_cloudtrail",
      "empty_s3_bucket", "delete_s3_bucket">>

CleanupMethods ==
    <<"delete_eventbridge_rules", "delete_lambda_functions",
      "delete_iam_roles_and_policies", "delete_cloudtrail",
      "empty_s3_bucket", "delete_s3_bucket">>

\* the first provider call of each method
FirstStep(m) ==
    CASE m = "delete_eventbridge_rules" -> "list_targets_by_rule"
      [] m = "delete_lambda_functions" -> "delete_function"
      [] m = "delete_iam_roles_and_policies" -> "delete_role_policy"
      [] m = "delete_cloudtrail" -> "delete_trail"
      [] m = "empty_s3_bucket" -> "head_bucket"
      [] m = "delete_s3_bucket" -> "delete_bucket"

PositionOf(m) == CHOOSE k \in DOMAIN CleanupMethods : CleanupMethods[k] = m

\* where control goes when method m returns
Return(m) ==
    IF entry = "run_cleanup" /\ PositionOf(m) < Len(CleanupMethods)
    THEN FirstStep(CleanupMethods[PositionOf(m) + 1])
    ELSE "cleanup_done"

(***************************************************************************)
(* delete_eventbridge_rules: for each rule, list its targets, remove the   *)
(* listed ones, delete the rule.                                           *)
(***************************************************************************)
\* the except clause of the loop body
rule_except(r, code) ==
    IF code = "ResourceNotFoundException"
    THEN Line("not_found", "EventBridge rule", r)
    ELSE Line("error", "EventBridge rule", r)

\* the loop goes on to the next rule; after the last one run_cleanup goes on
next_rule ==
    IF idx < Len(rules_to_delete)
    THEN idx' = idx + 1 /\ pc' = "list_targets_by_rule"
    ELSE idx' = 1 /\ pc' = Return("delete_eventbridge_rules")

\* a loop body that deletes the rule without looking at the response
after_list_targets_skip(listed) == "delete_rule"

\* the branch on targets_response.get('Targets')
after_list_targets(listed) == IF listed # {} THEN "remove_targets" ELSE "delete_rule"

list_targets_by_rule ==
    /\ pc = "list_targets_by_rule"
    /\ \E fault \in BOOLEAN :
        LET r == rules_to_delete[idx]
            res == Answer(fault, rules[r].exists, "ResourceNotFoundException")
            listed == FirstN(rules[r].targets, PageLimit)
        IN /\ Made("list_targets_by_rule", r, res)
           /\ IF res = "ok"
              THEN /\ target_ids' = listed
                   /\ pc' = after_list_targets(listed)
                   /\ out' = <<>> /\ UNCHANGED idx
              ELSE /\ out' = <<rule_except(r, res)>>
                   /\ next_rule
                   /\ UNCHANGED target_ids
    /\ UNCHANGED <<setupVars, exportVars, entry, bucket_name, remoteVars, pageVars>>

\* remove_targets answers with the entries it could not remove (FailedEntries)
\* without raising; the script does not read the response
remove_targets ==
    /\ pc = "remove_targets"
    /\ \E fault \in BOOLEAN, failed \in SUBSET target_ids :
        LET r == rules_to_delete[idx]
            res == Answer(fault, rules[r].exists, "ResourceNotFoundException")
        IN /\ Made("remove_targets", r, res)
           /\ IF res = "ok"
              THEN /\ rules' = [rules EXCEPT ![r].targets = @ \ (target_ids \ failed)]
                   /\ out' = <<Line("removed_targets", "EventBridge rule", r)>>
                   /\ pc' = "delete_rule"
                   /\ UNCHANGED idx
              ELSE /\ failed = {}
                   /\ out' = <<rule_except(r, res)>>
                   /\ next_rule
                   /\ UNCHANGED rules
    /\ UNCHANGED <<setupVars, exportVars, entry, bucket_name, functions, roles, trails, bucket, target_ids, pageVars>>

\* the provider refuses to delete a rule that has targets
delete_rule_answer(fault, rule) ==
    IF ~fault /\ rule.exists /\ rule.targets # {}
    THEN "ValidationException"
    ELSE Answer(fault, rule.exists, "ResourceNotFoundException")

delete_rule ==
    /\ pc = "delete_rule"
    /\ \E fault \in BOOLEAN :
        LET r == rules_to_delete[idx]
            res == delete_rule_answer(fault, rules[r])
        IN /\ Made("delete_rule", r, res)
           /\ IF res = "ok"
              THEN /\ rules' = [rules EXCEPT ![r] = NoRule]
                   /\ out' = <<Line("deleted", "EventBridge rule", r)>>
              ELSE /\ out' = <<rule_except(r, res)>>
                   /\ UNCHANGED rules
           /\ next_rule
    /\ UNCHANGED <<setupVars, exportVars, entry, bucket_name, functions, roles, trails, bucket, target_ids, pageVars>>

(***************************************************************************)
(* delete_lambda_functions                                                 *)
(***************************************************************************)
function_except(f, code) ==
    IF code = "ResourceNotFoundException"
    THEN Line("not_found", "Lambda function", f)
    ELSE Line("error", "Lambda function", f)

next_function ==
    IF idx < Len(functions_to_delete)
    THEN idx' = idx + 1 /\ pc' = "delete_function"
    ELSE idx' = 1 /\ pc' = Return("delete_lambda_functions")

delete_function ==
    /\ pc = "delete_function"
    /\ \E fault \in BOOLEAN :
        LET f == functions_to_delete[idx]
            res == Answer(fault, functions[f], "ResourceNotFoundException")
        IN /\ Made("delete_function", f, res)
           /\ IF res = "ok"
              THEN /\ functions' = [functions EXCEPT ![f] = FALSE]
                   /\ out' = <<Line("deleted", "Lambda function", f)>>
              ELSE /\ out' = <<function_except(f, res)>>
                   /\ UNCHANGED functions
           /\ next_function
    /\ UNCHANGED <<setupVars, exportVars, entry, bucket_name, rules, roles, trails, bucket, target_ids, pageVars>>

(***************************************************************************)
(* delete_iam_roles_and_policies: for each role, delete the inline policy, *)
(* then the role.                                                          *)
(***************************************************************************)
\* the inner except clause: NoSuchEntity is passed over in silence, any other
\* code is printed
policy_except(role, code) ==
    IF code # "NoSuchEntity"
    THEN <<Line("error", "policy", role.policy_name)>>
    ELSE <<>>

\* where the loop body goes once the inner try statement has ended
after_policy_except(code) == "delete_role"

role_except(r, code) ==
    IF code = "NoSuchEntity"
    THEN Line("not_found", "IAM role", r)
    ELSE Line("error", "IAM role", r)

next_role ==
    IF idx < Len(roles_to_delete)
    THEN idx' = idx + 1 /\ pc' = "delete_role_policy"
    ELSE idx' = 1 /\ pc' = Return("delete_iam_roles_and_policies")

delete_role_policy ==
    /\ pc = "delete_role_policy"
    /\ \E fault \in BOOLEAN :
        LET role == roles_to_delete[idx]
            r == role.role_name
            res == Answer(fault, roles[r].exists /\ roles[r].policy, "NoSuchEntity")
        IN /\ Made("delete_role_policy", r, res)
           /\ IF res = "ok"
              THEN /\ roles' = [roles EXCEPT ![r].policy = FALSE]
                   /\ out' = <<Line("deleted", "policy", role.policy_name)>>
                   /\ pc' = "delete_role"
              ELSE /\ out' = policy_except(role, res)
                   /\ pc' = after_policy_except(res)
                   /\ UNCHANGED roles
    /\ UNCHANGED <<setupVars, exportVars, entry, bucket_name, rules, functions, trails, bucket, idx, target_ids, pageVars>>

\* the provider refuses to delete a role that has an inline policy
delete_role_answer(fault, role) ==
    IF ~fault /\ role.exists /\ role.policy
    THEN "DeleteConflict"
    ELSE Answer(fault, role.exists, "NoSuchEntity")

delete_role ==
    /\ pc = "delete_role"
    /\ \E fault \in BOOLEAN :
        LET r == roles_to_delete[idx].role_name
            res == delete_role_answer(fault, roles[r])
        IN /\ Made("delete_role", r, res)
           /\ IF res = "ok"
              THEN /\ roles' = [roles EXCEPT ![r] = NoRole]
                   /\ out' = <<Line("deleted", "IAM role", r)>>
              ELSE /\ out' = <<role_except(r, res)>>
                   /\ UNCHANGED roles
           /\ next_role
    /\ UNCHANGED <<setupVars, exportVars, entry, bucket_name, rules, functions, trails, bucket, target_ids, pageVars>>

(***************************************************************************)
(* delete_cloudtrail                                                       *)
(***************************************************************************)
trail_except(t, code) ==
    IF code = "TrailNotFoundException"
    THEN Line("not_found", "CloudTrail", t)
    ELSE Line("error", "CloudTrail", t)

delete_trail ==
    /\ pc = "delete_trail"
    /\ \E fault \in BOOLEAN :
        LET t == cleanup_trail_name(bucket_name)
            res == Answer(fault, trails[t].exists, "TrailNotFoundException")
        IN /\ Made("delete_trail", t, res)
           /\ IF res = "ok"
              THEN /\ trails' = [trails EXCEPT ![t] = NoTrail]
                   /\ out' = <<Line("deleted", "CloudTrail", t)>>
              ELSE /\ out' = <<trail_except(t, res)>>
                   /\ UNCHANGED trails
    /\ pc' = Return("delete_cloudtrail")
    /\ UNCHANGED <<setupVars, exportVars, entry, bucket_name, rules, functions, roles, bucket, idx, target_ids, pageVars>>

(***************************************************************************)
(* empty_s3_bucket: probe the bucket, delete the listed objects page by    *)
(* page, then the listed versions and delete markers page by page.         *)
(***************************************************************************)
\* an except clause that tests for the code delete_bucket answers with
empty_except_NoSuchBucket(code) ==
    IF code = "NoSuchBucket"
    THEN Line("not_found", "S3 bucket", bucket_name)
    ELSE Line("error", "S3 bucket", bucket_name)

\* the outer except clause
empty_except(code) ==
    IF code = "404"
    THEN Line("not_found", "S3 bucket", bucket_name)
    ELSE Line("error", "S3 bucket", bucket_name)

\* an except clause that re-raises every code but 404
after_empty_except_raise(code) ==
    IF code = "404" THEN Return("empty_s3_bucket") ELSE "raised"

\* the outer except clause ends the method
after_empty_except(code) == Return("empty_s3_bucket")

emptied == Line("emptied", "S3 bucket", bucket_name)

\* the objects_to_delete list built from a page's Contents
objects_to_delete(keys) == {[Key |-> k] : k \in keys}

\* a versions_to_delete list built from a page's Versions alone
versions_to_delete_no_markers(es) ==
    {[Key |-> e.Key, VersionId |-> e.VersionId] : e \in {f \in es : ~f.IsMarker}}

\* the versions_to_delete list built from a page's Versions and DeleteMarkers
versions_to_delete(es) ==
    {[Key |-> e.Key, VersionId |-> e.VersionId] : e \in {f \in es : ~f.IsMarker}}
        \cup {[Key |-> e.Key, VersionId |-> e.VersionId] : e \in {f \in es : f.IsMarker}}

head_bucket ==
    /\ pc = "head_bucket"
    /\ \E fault \in BOOLEAN :
        LET res == Answer(fault, bucket.exists, "404")
        IN /\ Made("head_bucket", bucket_name, res)
           /\ IF res = "ok"
              THEN /\ pc' = "list_objects_v2"
                   /\ out' = <<>>
              ELSE /\ out' = <<empty_except(res)>>
                   /\ pc' = after_empty_except(res)
    /\ page' = {} /\ marker' = NoMarker /\ more' = FALSE /\ objects_deleted' = 0
    /\ UNCHANGED <<setupVars, exportVars, entry, bucket_name, remoteVars, idx, target_ids>>

list_objects_v2 ==
    /\ pc = "list_objects_v2"
    /\ \E fault \in BOOLEAN :
        LET res == Answer(fault, bucket.exists, "NoSuchBucket")
            keys == ListObjectsPage(bucket, marker)
        IN /\ Made("list_objects_v2", bucket_name, res)
           /\ IF res = "ok"
              THEN /\ page' = objects_to_delete(keys)
                   /\ more' = ListObjectsTruncated(bucket, marker)
                   /\ marker' = IF keys = {} THEN NoMarker
                                ELSE [Key |-> Max(keys), VersionId |-> 0]
                   /\ pc' = IF keys # {} THEN "delete_objects" ELSE "list_object_versions"
                   /\ out' = <<>>
              ELSE /\ out' = <<empty_except(res)>>
                   /\ pc' = after_empty_except(res)
                   /\ UNCHANGED <<page, marker, more>>
    /\ UNCHANGED <<setupVars, exportVars, entry, bucket_name, remoteVars, idx, target_ids, objects_deleted>>

delete_objects ==
    /\ pc = "delete_objects"
    /\ \E fault \in BOOLEAN :
        LET res == Answer(fault, bucket.exists, "NoSuchBucket")
        IN /\ Made("delete_objects", bucket_name, res)
           /\ IF res = "ok"
              THEN /\ bucket' = DeleteObjectsEffect(bucket, page)
                   /\ objects_deleted' = objects_deleted + Cardinality(page)
                   /\ pc' = IF more THEN "list_objects_v2" ELSE "list_object_versions"
                   /\ marker' = IF more THEN marker ELSE NoMarker
                   /\ out' = <<>>
              ELSE /\ out' = <<empty_except(res)>>
                   /\ pc' = after_empty_except(res)
                   /\ UNCHANGED <<bucket, objects_deleted, marker>>
    /\ UNCHANGED <<setupVars, exportVars, entry, bucket_name, rules, functions, roles, trails, idx, target_ids, page, more>>

\* the inner except clause of the versions pass: the error is passed over and
\* the function goes on to its closing print
versions_except(code) == <<emptied>>

list_object_versions ==
    /\ pc = "list_object_versions"
    /\ \E fault \in BOOLEAN :
        LET res == Answer(fault, bucket.exists, "NoSuchBucket")
            es == ListVersionsPage(bucket, marker)
        IN /\ Made("list_object_versions", bucket_name, res)
           /\ IF res = "ok"
              THEN /\ page' = versions_to_delete(es)
                   /\ more' = ListVersionsTruncated(bucket, marker)
                   /\ marker' = IF es = {} THEN marker
                                ELSE [Key |-> LastOf(es).Key, VersionId |-> LastOf(es).VersionId]
                   /\ IF es # {}
                      THEN pc' = "delete_object_versions" /\ out' = <<>>
                      ELSE pc' = Return("empty_s3_bucket") /\ out' = <<emptied>>
              ELSE /\ out' = versions_except(res)
                   /\ pc' = Return("empty_s3_bucket")
                   /\ UNCHANGED <<page, marker, more>>
    /\ UNCHANGED <<setupVars, exportVars, entry, bucket_name, remoteVars, idx, target_ids, objects_deleted>>

delete_object_versions ==
    /\ pc = "delete_object_versions"
    /\ \E fault \in BOOLEAN :
        LET res == Answer(fault, bucket.exists, "NoSuchBucket")
        IN /\ Made("delete_object_versions", bucket_name, res)
           /\ IF res = "ok"
              THEN /\ bucket' = DeleteObjectsEffect(bucket, page)
                   /\ objects_deleted' = objects_deleted + Cardinality(page)
                   /\ IF more
                      THEN pc' = "list_object_versions" /\ out' = <<>>
                      ELSE pc' = Return("empty_s3_bucket") /\ out' = <<emptied>>
              ELSE /\ out' = versions_except(res)
                   /\ pc' = Return("empty_s3_bucket")
                   /\ UNCHANGED <<bucket, objects_deleted>>
    /\ UNCHANGED <<setupVars, exportVars, entry, bucket_name, rules, functions, roles, trails, idx, target_ids,
                   page, marker, more>>

(***************************************************************************)
(* delete_s3_bucket                                                        *)
(***************************************************************************)
bucket_except(code) ==
    IF code = "NoSuchBucket"
    THEN Line("not_found", "S3 bucket", bucket_name)
    ELSE Line("error", "S3 bucket", bucket_name)

\* the provider refuses to delete a bucket that holds any object, version or
\* delete marker
delete_bucket_answer(fault, b) ==
    IF ~fault /\ b.exists /\ b.entries # {}
    THEN "BucketNotEmpty"
    ELSE Answer(fault, b.exists, "NoSuchBucket")

delete_bucket ==
    /\ pc = "delete_bucket"
    /\ \E fault \in BOOLEAN :
        LET res == delete_bucket_answer(fault, bucket)
        IN /\ Made("delete_bucket", bucket_name, res)
           /\ IF res = "ok"
              THEN /\ bucket' = NoBucket
                   /\ out' = <<Line("deleted", "S3 bucket", bucket_name)>>
              ELSE /\ out' = <<bucket_except(res)>>
                   /\ UNCHANGED bucket
    /\ pc' = Return("delete_s3_bucket")
    /\ UNCHANGED <<setupVars, exportVars, entry, bucket_name, rules, functions, roles, trails, idx, target_ids, pageVars>>

(***************************************************************************)
(* run_cleanup                                                             *)
(***************************************************************************)
\* Remote states run_cleanup starts from: each named resource is absent or as
\* the deployment created it, the bucket absent or holding at most one object.
\* A method called on its own starts from every state of its own resources.
Deployed ==
    [rules : [RuleNames -> {NoRule, [exists |-> TRUE, targets |-> {1}]}],
     functions : [FunctionNames -> BOOLEAN],
     roles : [RoleNames -> {NoRole, [exists |-> TRUE, policy |-> TRUE]}],
     trail : {NoTrail, [NoTrail EXCEPT !.exists = TRUE]},
     bucket : {b \in BucketStates : b.entries \subseteq {Entry(1, 0, FALSE), Entry(1, 1, FALSE)}}]

Alone ==
    [rules |-> [RuleNames -> RuleStates],
     functions |-> [FunctionNames -> BOOLEAN],
     roles |-> [RoleNames -> RoleStates],
     trail |-> {NoTrail, [NoTrail EXCEPT !.exists = TRUE]},
     bucket |-> BucketStates]

Nothing ==
    [rules |-> [r \in RuleNames |-> NoRule],
     functions |-> [f \in FunctionNames |-> FALSE],
     roles |-> [r \in RoleNames |-> NoRole],
     trail |-> NoTrail,
     bucket |-> NoBucket]

\* the resources method m works on
Touches(m) ==
    CASE m = "delete_eventbridge_rules" -> {"rules"}
      [] m = "delete_lambda_functions" -> {"functions"}
      [] m = "delete_iam_roles_and_policies" -> {"roles"}
      [] m = "delete_cloudtrail" -> {"trail"}
      [] m = "empty_s3_bucket" -> {"bucket"}
      [] m = "delete_s3_bucket" -> {"bucket"}

Accounts(e) ==
    IF e = "run_cleanup"
    THEN Deployed
    ELSE [rules : IF "rules" \in Touches(e) THEN Alone.rules ELSE {Nothing.rules},
          functions : IF "functions" \in Touches(e) THEN Alone.functions
                      ELSE {Nothing.functions},
          roles : IF "roles" \in Touches(e) THEN Alone.roles ELSE {Nothing.roles},
          trail : IF "trail" \in Touches(e) THEN Alone.trail ELSE {Nothing.trail},
          bucket : IF "bucket" \in Touches(e) THEN Alone.bucket ELSE {Nothing.bucket}]

CleanupEntries == {"run_cleanup"} \cup {CleanupMethods[k] : k \in DOMAIN CleanupMethods}

CleanupInit ==
    /\ entry \in CleanupEntries
    /\ pc = IF entry = "run_cleanup" THEN FirstStep(CleanupMethods[1]) ELSE FirstStep(entry)
    /\ bucket_name \in BucketNames
    /\ calls = <<>>
    /\ last = NoCall
    /\ out = <<>>
    /\ \E a \in Accounts(entry) :
        /\ rules = a.rules
        /\ functions = a.functions
        /\ roles = a.roles
        /\ trails = [t \in TrailNames |->
                        IF t = cleanup_trail_name(bucket_name) THEN a.trail ELSE NoTrail]
        /\ bucket = a.bucket
    /\ CleanupIdle
    /\ SetupIdle
    /\ ExportIdle

CleanupNext ==
    \/ list_targets_by_rule
    \/ remove_targets
    \/ delete_rule
    \/ delete_function
    \/ delete_role_policy
    \/ delete_role
    \/ delete_trail
    \/ head_bucket
    \/ list_objects_v2
    \/ delete_objects
    \/ list_object_versions
    \/ delete_object_versions
    \/ delete_bucket

CleanupSpec == CleanupInit /\ [][CleanupNext]_vars

\* the script runs on: a step that can be taken is taken
FairCleanupSpec == CleanupSpec /\ WF_vars(CleanupNext)

(***************************************************************************)
(* A run of the setup script or of the setup Lambda.                       *)
(***************************************************************************)
\* the parsed command line of the setup script
SetupArgs == [bucket_name : BucketNames, region : Regions, export_users : BOOLEAN]

\* the events the setup Lambda is invoked with
SetupEvents ==
    { [region |-> "us-west-2"],
      [bucket_name |-> ""],
      [bucket_name |-> "q-metrics"],
      [bucket_name |-> "q-metrics", region |-> "us-east-1"],
      [bucket_name |-> "q-metrics", export_users |-> TRUE],
      [bucket_name |-> "q-metrics", region |-> "us-west-2", export_users |-> TRUE] }

\* the bucket before setup: absent, or left by an earlier run or by someone else
SetupBuckets ==
    { NoBucket,
      [NoBucket EXCEPT !.exists = TRUE],
      [NoBucket EXCEPT !.exists = TRUE, !.policy = custom_policy,
                       !.entries = {Entry(1, 0, FALSE)}],
      [NoBucket EXCEPT !.exists = TRUE, !.policy = bucket_policy("q-metrics")] }

\* the trail before setup: absent, left by an earlier run, or delivering elsewhere
SetupTrails ==
    { NoTrail,
      [exists |-> TRUE, bucket |-> "q-metrics", selectors |-> advanced_event_selectors,
       logging |-> TRUE],
      [exists |-> TRUE, bucket |-> "other-bucket", selectors |-> {}, logging |-> FALSE] }

SetupDirectories ==
    { << <<user_full>> >>,
      << <<user_full>>, <<user_bare, user_second_primary, user_no_primary>> >> }

SetupEntries == {"setup_main", "setup_lambda_handler"}

RemoteIdle ==
    /\ rules = Nothing.rules
    /\ functions = Nothing.functions
    /\ roles = Nothing.roles

ScriptIdle ==
    /\ calls = <<>>
    /\ last = NoCall
    /\ out = <<>>
    /\ region = ""
    /\ export_users = FALSE
    /\ steps = <<>>
    /\ setup_result = "pending"
    /\ response = [statusCode |-> 0]
    /\ users = <<>>
    /\ next_token = None
    /\ csv = <<>>
    /\ temp_file = "none"
    /\ export_result = [success |-> FALSE, message |-> "pending"]

SetupInit ==
    /\ entry \in SetupEntries
    /\ pc = entry
    /\ variant = IF entry = "setup_main" THEN "cli" ELSE "lambda"
    /\ event \in IF entry = "setup_main" THEN SetupArgs ELSE SetupEvents
    /\ bucket_name = ""
    /\ ScriptIdle
    /\ RemoteIdle
    /\ CleanupIdle
    /\ bucket \in SetupBuckets
    /\ \E t \in SetupTrails :
        trails = [n \in TrailNames |-> IF n = setup_trail_name THEN t ELSE NoTrail]
    /\ instances \in BOOLEAN
    /\ directory \in SetupDirectories
    /\ stored = NoObject

SetupNext ==
    \/ setup_main
    \/ setup_lambda_handler
    \/ setup_init
    \/ create_s3_bucket_head_bucket
    \/ create_s3_bucket_create_bucket
    \/ create_s3_bucket_put_bucket_policy
    \/ display_q_developer_instructions
    \/ setup_cloudtrail_describe_trails
    \/ setup_cloudtrail_create_trail
    \/ setup_cloudtrail_put_event_selectors
    \/ setup_cloudtrail_start_logging
    \/ export_list_instances
    \/ export_list_users
    \/ export_write_csv
    \/ export_upload

SetupSpec == SetupInit /\ [][SetupNext]_vars

(***************************************************************************)
(* The setup script, then the cleanup script with the same bucket name.    *)
(***************************************************************************)
\* the teardown resources, all of them deployed
LifecycleAccounts ==
    { [rules |-> [r \in RuleNames |-> [exists |-> TRUE, targets |-> {1}]],
       functions |-> [f \in FunctionNames |-> TRUE],
       roles |-> [r \in RoleNames |-> [exists |-> TRUE, policy |-> TRUE]],
       trail |-> NoTrail,
       bucket |-> NoBucket] }

\* the bucket before setup: absent, or a versioned bucket that holds an object
LifecycleBuckets ==
    { NoBucket,
      [exists |-> TRUE, versioned |-> TRUE, policy |-> NoPolicy,
       entries |-> {Entry(1, 1, FALSE)}] }

LifecycleInit ==
    /\ entry = "setup_main"
    /\ pc = entry
    /\ variant = "cli"
    /\ event \in [bucket_name : LifecycleBucketNames, region : {"us-west-2"},
                  export_users : {FALSE}]
    /\ bucket_name = ""
    /\ ScriptIdle
    /\ CleanupIdle
    /\ \E a \in LifecycleAccounts :
        rules = a.rules /\ functions = a.functions /\ roles = a.roles
    /\ bucket \in LifecycleBuckets
    /\ \E t \in SetupTrails :
        trails = [n \in TrailNames |-> IF n = setup_trail_name THEN t ELSE NoTrail]
    /\ instances = FALSE
    /\ directory = << <<>> >>
    /\ stored = NoObject

\* main of the cleanup script, run with --confirm once the setup script has
\* ended with success: the constructor calls no provider, run_cleanup starts
cleanup_main ==
    /\ entry = "setup_main"
    /\ pc = "main_done"
    /\ setup_result = "True"
    /\ entry' = "run_cleanup"
    /\ pc' = FirstStep(CleanupMethods[1])
    /\ out' = <<>>
    /\ UNCHANGED <<bucket_name, calls, last, remoteVars, cleanupLocals, setupVars, exportVars>>

LifecycleNext ==
    \/ setup_main
    \/ setup_init
    \/ create_s3_bucket_head_bucket
    \/ create_s3_bucket_create_bucket
    \/ create_s3_bucket_put_bucket_policy
    \/ display_q_developer_instructions
    \/ setup_cloudtrail_describe_trails
    \/ setup_cloudtrail_create_trail
    \/ setup_cloudtrail_put_event_selectors
    \/ setup_cloudtrail_start_logging
    \/ cleanup_main
    \/ CleanupNext

LifecycleSpec == LifecycleInit /\ [][LifecycleNext]_vars

(***************************************************************************)
(* The setup script run twice in succession with the same command line.    *)
(***************************************************************************)
RepeatInit ==
    /\ SetupInit
    /\ entry = "setup_main"
    /\ ~event.export_users

\* the operator starts the script a second time once the first run has ended
run_setup_again ==
    /\ entry = "setup_main"
    /\ pc = "main_done"
    /\ entry' = "setup_main_again"
    /\ pc' = "setup_main"
    /\ setup_result' = "pending"
    /\ out' = <<>>
    /\ UNCHANGED <<bucket_name, calls, last, remoteVars, cleanupLocals, variant, event, region,
                   export_users, steps, response, exportVars>>

RepeatNext ==
    \/ setup_main
    \/ setup_init
    \/ create_s3_bucket_head_bucket
    \/ create_s3_bucket_create_bucket
    \/ create_s3_bucket_put_bucket_policy
    \/ display_q_developer_instructions
    \/ setup_cloudtrail_describe_trails
    \/ setup_cloudtrail_create_trail
    \/ setup_cloudtrail_put_event_selectors
    \/ setup_cloudtrail_start_logging
    \/ run_setup_again

RepeatSpec == RepeatInit /\ [][RepeatNext]_vars

(***************************************************************************)
(* main of the cleanup script: the confirmation prompt, then run_cleanup.  *)
(***************************************************************************)
\* what the operator types at the prompt, character by character
Answers ==
    { <<"y", "e", "s">>, <<"Y", "e", "S">>, <<"y">>, <<"Y">>, <<>>, <<"N", "O">>,
      <<"y", "e", "s", " ">>, <<" ", "Y", "E", "S">> }

lower_char(c) ==
    CASE c = "Y" -> "y"
      [] c = "E" -> "e"
      [] c = "S" -> "s"
      [] c = "N" -> "n"
      [] c = "O" -> "o"
      [] OTHER -> c

\* a comparison of the answer as typed
lower_as_typed(s) == s

\* str.lower()
lower(s) == [k \in DOMAIN s |-> lower_char(s[k])]

\* the command lines of the cleanup script, with the answer the operator will type
\* (nothing is typed when --confirm is given)
CleanupArgs ==
    [bucket_name : BucketNames, region : {"us-east-1"}, confirm : {FALSE}, answer : Answers]
        \cup [bucket_name : BucketNames, region : {"us-east-1"}, confirm : {TRUE},
              answer : {<<>>}]

\* the deployed account the cleanup script is run against
GateAccounts ==
    { [rules |-> [r \in RuleNames |-> [exists |-> TRUE, targets |-> {1}]],
       functions |-> [f \in FunctionNames |-> TRUE],
       roles |-> [r \in RoleNames |-> [exists |-> TRUE, policy |-> TRUE]],
       trail |-> [NoTrail EXCEPT !.exists = TRUE],
       bucket |-> [exists |-> TRUE, versioned |-> TRUE, policy |-> NoPolicy,
                   entries |-> {Entry(1, 1, FALSE)}]] }

GateInit ==
    /\ entry = "main"
    /\ pc = "main_confirm"
    /\ variant = "none"
    /\ event \in CleanupArgs
    /\ bucket_name = ""
    /\ ScriptIdle
    /\ CleanupIdle
    /\ \E a \in GateAccounts :
        /\ rules = a.rules
        /\ functions = a.functions
        /\ roles = a.roles
        /\ trails = [t \in TrailNames |->
                        IF t = cleanup_trail_name(event.bucket_name) THEN a.trail ELSE NoTrail]
        /\ bucket = a.bucket
    /\ instances = FALSE
    /\ directory = << <<>> >>
    /\ stored = NoObject

\* if not args.confirm: the warning, the prompt, and the test of the answer
main_confirm ==
    /\ pc = "main_confirm"
    /\ IF event.confirm
       THEN pc' = "cleanup_init" /\ out' = <<>>
       ELSE IF lower(event.answer) # <<"y", "e", "s">>
       THEN /\ pc' = "cancelled"
            /\ out' = <<Line("prompt", "cleanup", event.bucket_name),
                        Line("cancelled", "cleanup", "")>>
       ELSE /\ pc' = "cleanup_init"
            /\ out' = <<Line("prompt", "cleanup", event.bucket_name)>>
    /\ UNCHANGED <<entry, bucket_name, calls, last, remoteVars, cleanupLocals, setupVars,
                   exportVars>>

\* QDeveloper3PCleanup(args.bucket_name, args.region) creates the five
\* clients, which calls no provider; run_cleanup then starts with the rules
cleanup_init ==
    /\ pc = "cleanup_init"
    /\ bucket_name' = event.bucket_name
    /\ region' = event.region
    /\ entry' = "run_cleanup"
    /\ pc' = FirstStep(CleanupMethods[1])
    /\ out' = <<Line("initializing", "cleanup", event.region)>>
    /\ UNCHANGED <<calls, last, remoteVars, cleanupLocals, variant, event, export_users, steps,
                   setup_result, response, exportVars>>

GateNext ==
    \/ main_confirm
    \/ cleanup_init
    \/ CleanupNext

GateSpec == GateInit /\ [][GateNext]_vars

(***************************************************************************)
(* A run of the users export: the extraction Lambda, or the export method  *)
(* of a setup object called on its own.                                    *)
(***************************************************************************)
ExtractEvents ==
    { [region |-> "us-west-2"],
      [bucket_name |-> ""],
      [bucket_name |-> "q-metrics"],
      [bucket_name |-> "q-metrics", region |-> "us-west-2"] }

ExportEntries == {"extract_lambda_handler", "export_identity_center_users"}

ExportInit ==
    /\ entry \in ExportEntries
    /\ IF entry = "extract_lambda_handler"
       THEN /\ pc = entry
            /\ variant = "extract"
            /\ event \in ExtractEvents
            /\ bucket_name = ""
       ELSE /\ pc = "list_instances"
            /\ variant \in {"cli", "lambda"}
            /\ bucket_name \in BucketNames
            /\ event = [bucket_name |-> bucket_name]
    /\ ScriptIdle
    /\ RemoteIdle
    /\ CleanupIdle
    /\ bucket \in {NoBucket, [NoBucket EXCEPT !.exists = TRUE]}
    /\ trails = [n \in TrailNames |-> NoTrail]
    /\ instances \in BOOLEAN
    /\ directory \in Directories
    /\ stored \in {NoObject, <<fieldnames>>}

ExportNext ==
    \/ extract_lambda_handler
    \/ export_list_instances
    \/ export_list_users
    \/ export_write_csv
    \/ export_upload

ExportSpec == ExportInit /\ [][ExportNext]_vars

(***************************************************************************)
(* The two Lambda handlers, each invoked once with an event.               *)
(***************************************************************************)
HandlerInit ==
    \/ SetupInit /\ entry = "setup_lambda_handler"
    \/ ExportInit /\ entry = "extract_lambda_handler"

HandlerNext ==
    \/ setup_lambda_handler
    \/ extract_lambda_handler
    \/ setup_init
    \/ create_s3_bucket_head_bucket
    \/ create_s3_bucket_create_bucket
    \/ create_s3_bucket_put_bucket_policy
    \/ setup_cloudtrail_describe_trails
    \/ setup_cloudtrail_create_trail
    \/ setup_cloudtrail_put_event_selectors
    \/ setup_cloudtrail_start_logging
    \/ export_list_instances
    \/ export_list_users
    \/ export_write_csv
    \/ export_upload

HandlerSpec == HandlerInit /\ [][HandlerNext]_vars

(***************************************************************************)
(* Properties of the teardown.                                             *)
(***************************************************************************)
Range(q) == {q[k] : k \in DOMAIN q}

\* the code each deletion call answers with when its resource is absent
NotFoundCode(op) ==
    CASE op \in {"list_targets_by_rule", "remove_targets", "delete_rule", "delete_function"}
            -> "ResourceNotFoundException"
      [] op \in {"delete_role_policy", "delete_role"} -> "NoSuchEntity"
      [] op = "delete_trail" -> "TrailNotFoundException"
      [] op = "head_bucket" -> "404"
      [] OTHER -> "NoSuchBucket"

\* what the script calls the resource of a call in its messages
WhatOf(op) ==
    CASE op \in {"list_targets_by_rule", "remove_targets", "delete_rule"} -> "EventBridge rule"
      [] op = "delete_function" -> "Lambda function"
      [] op \in {"delete_role_policy", "delete_role"} -> "IAM role"
      [] op = "delete_trail" -> "CloudTrail"
      [] OTHER -> "S3 bucket"

\* C3: a deletion call that the provider answers with the not-found code of
\* its service ends without raising (the method goes on to its next
\* statement), prints no error line, prints the 'not found (already deleted)'
\* line of the resource (delete_role_policy alone prints nothing, the
\* delete_role call after it prints the line), and changes no remote state.
C3_NotFoundIsSuccess ==
    [][ (calls' # calls /\ last'.res = NotFoundCode(last'.op)) =>
            /\ remoteVars' = remoteVars
            /\ \A k \in DOMAIN out' : out'[k].kind # "error"
            /\ last'.op # "delete_role_policy"
                 => out' = <<Line("not_found", WhatOf(last'.op), last'.name)>>
            /\ pc' # "raised" ]_vars

C3_Witness ==
    /\ entry = "run_cleanup"
    /\ last.op = "delete_role" /\ last.res = "NoSuchEntity"
    /\ out = <<Line("not_found", "IAM role", last.name)>>

Earlier(c, k) == \E j \in 1..(k - 1) : calls[j] = c

\* C4: every delete_rule call on a rule comes after the list_targets_by_rule
\* call on that rule and, when that response held targets, after the
\* remove_targets call on it; every delete_role call on a role comes after
\* the delete_role_policy call on it; no removal call on a resource comes
\* after its delete_rule or delete_role call.
C4_RemovalBeforeDeletion ==
    /\ \A k \in DOMAIN calls :
        /\ calls[k].op = "delete_rule"
             => Earlier(Call("list_targets_by_rule", calls[k].name), k)
        /\ calls[k].op \in {"list_targets_by_rule", "remove_targets"}
             => ~Earlier(Call("delete_rule", calls[k].name), k)
        /\ calls[k].op = "delete_role"
             => Earlier(Call("delete_role_policy", calls[k].name), k)
        /\ calls[k].op = "delete_role_policy"
             => ~Earlier(Call("delete_role", calls[k].name), k)
    /\ (pc = "delete_rule" /\ target_ids # {})
         => Call("remove_targets", rules_to_delete[idx]) \in Range(calls)

C4_Witness ==
    /\ pc = "cleanup_done"
    /\ \A r \in RuleNames :
        {Call("remove_targets", r), Call("delete_rule", r)} \subseteq Range(calls)
    /\ \A r \in RoleNames : Call("delete_role", r) \in Range(calls)

\* C5: whenever delete_rule is about to be called on a rule, the rule has no
\* target left.
C5_NoLiveTargetsAtDeleteRule ==
    pc = "delete_rule" => rules[rules_to_delete[idx]].targets = {}

\* C6: whenever delete_role is about to be called on a role, the role has no
\* inline policy attached.
C6_NoPolicyAtDeleteRole ==
    pc = "delete_role" => ~roles[roles_to_delete[idx].role_name].policy

\* the first call each named resource gets
Attempts ==
    {Call("list_targets_by_rule", r) : r \in RuleNames}
        \cup {Call("delete_function", f) : f \in FunctionNames}
        \cup {Call("delete_role_policy", r) : r \in RoleNames}
        \cup {Call("delete_role", r) : r \in RoleNames}
        \cup {Call("delete_trail", cleanup_trail_name(bucket_name)),
              Call("head_bucket", bucket_name),
              Call("delete_bucket", bucket_name)}

\* C7: whatever the provider answers, run_cleanup reaches its end, and by then
\* it has called the provider for both rules, both functions, both roles, the
\* trail, the bucket probe and the bucket deletion; a deletion method called
\* on its own reaches its end as well.
C7_TeardownCompletes ==
    <>(pc = "cleanup_done" /\ (entry = "run_cleanup" => Attempts \subseteq Range(calls)))

C7_Witness ==
    /\ entry = "run_cleanup"
    /\ pc = "cleanup_done"
    /\ last = [op |-> "delete_bucket", name |-> bucket_name, res |-> OtherError]
    /\ Attempts \subseteq Range(calls)
    /\ \A r \in RuleNames : rules[r].exists /\ Call("delete_rule", r) \notin Range(calls)

\* C8: when empty_s3_bucket ends with its closing line and no provider call
\* of it failed (a failed call ends the method at that call), the bucket
\* exists and holds no object, no version and no delete marker, so that the
\* provider accepts the delete_bucket call that follows.
C8_EmptiedBucketIsEmpty ==
    (out = <<emptied>> /\ last.res = "ok") =>
        /\ bucket.exists
        /\ bucket.entries = {}
        /\ delete_bucket_answer(FALSE, bucket) = "ok"

C8_Witness ==
    /\ out = <<emptied>> /\ last.res = "ok"
    /\ last.op = "delete_object_versions"
    /\ bucket.versioned
    /\ objects_deleted > 3 * PageSize

\* the methods run_setup calls, in order
RunSetupOrder ==
    IF variant = "cli"
    THEN <<"create_s3_bucket", "display_q_developer_instructions", "setup_cloudtrail",
           "export_identity_center_users">>
    ELSE <<"create_s3_bucket", "setup_cloudtrail", "export_identity_center_users">>

StepOf(method) == {k \in DOMAIN steps : steps[k].method = method}
SetupEnded == pc \in {"main_done", "handler_done"} /\ steps # <<>>

\* C1: the methods run_setup has called are an initial part of the order
\* create_s3_bucket, the manual pause (script only), setup_cloudtrail,
\* export_identity_center_users, each called once the one before it returned;
\* when create_s3_bucket or setup_cloudtrail returned False, no further
\* method is called and run_setup returns False; a run_setup that returned
\* True has called every method of the order (the export when asked to).
C1_StepsInOrderAndAbort ==
    /\ Len(steps) <= Len(RunSetupOrder)
    /\ \A k \in DOMAIN steps :
        /\ steps[k].method = RunSetupOrder[k]
        /\ k < Len(steps) => steps[k].returned # "pending"
        /\ steps[k].method = "export_identity_center_users" => export_users
        /\ (steps[k].method \in {"create_s3_bucket", "setup_cloudtrail"}
              /\ steps[k].returned = "False")
             => /\ k = Len(steps)
                /\ pc \in {"main_done", "handler_done"}
                /\ setup_result = "False"
    /\ setup_result = "True" =>
        Len(steps) = IF export_users THEN Len(RunSetupOrder) ELSE Len(RunSetupOrder) - 1

C1_Witness ==
    /\ variant = "cli"
    /\ export_users
    /\ SetupEnded
    /\ Len(steps) = 3
    /\ steps[3] = [method |-> "setup_cloudtrail", returned |-> "False"]
    /\ setup_result = "False"

\* C2: once create_s3_bucket and setup_cloudtrail have both returned True and
\* run_setup has ended, run_setup has returned True and the handler of the
\* setup Lambda has answered with statusCode 200, whatever the export
\* returned and whether or not it was asked for.
C2_ExportIsBestEffort ==
    (/\ SetupEnded
     /\ \E k \in StepOf("create_s3_bucket") : steps[k].returned = "True"
     /\ \E k \in StepOf("setup_cloudtrail") : steps[k].returned = "True")
        => /\ setup_result = "True"
           /\ entry = "setup_lambda_handler" => response.statusCode = 200

C2_Witness ==
    /\ entry = "setup_lambda_handler"
    /\ SetupEnded
    /\ \E k \in StepOf("export_identity_center_users") : steps[k].returned = "False"
    /\ setup_result = "True"
    /\ response.statusCode = 200

\* the list_users calls made so far
ListUsersCalls == SelectSeq(calls, LAMBDA c : c.op = "list_users")

RECURSIVE Flatten(_)
Flatten(pages) == IF pages = <<>> THEN <<>> ELSE Head(pages) \o Flatten(Tail(pages))

\* the loop has ended normally
Listed == pc \in {"write_csv", "upload"} \/ export_result.success

\* C9: the first list_users call carries no NextToken; every later call
\* carries the NextToken of the response to the call before it; the loop ends
\* at the first response without a token, having asked for every page once;
\* the CSV then holds the header and one row for each user of all the pages,
\* in page order, and the reported user_count is that number of users.
C9_PaginationFollowsTokens ==
    LET L == ListUsersCalls
    IN /\ \A k \in DOMAIN L :
            IF k = 1
            THEN "NextToken" \notin DOMAIN L[k]
            ELSE /\ "NextToken" \in DOMAIN L[k]
                 /\ "NextToken" \in DOMAIN list_users_response(L[k - 1])
                 /\ L[k].NextToken = list_users_response(L[k - 1]).NextToken
       /\ Listed =>
            /\ Len(L) = Len(directory)
            /\ "NextToken" \notin DOMAIN list_users_response(L[Len(L)])
            /\ users = Flatten(directory)
       /\ csv # <<>> =>
            /\ Len(csv) = 1 + Len(Flatten(directory))
            /\ csv[1] = fieldnames
            /\ \A k \in DOMAIN Flatten(directory) : csv[k + 1][1] = Get(Flatten(directory)[k], "UserId", "")
       /\ (export_result.success /\ variant = "extract") =>
            /\ export_result.user_count = Len(Flatten(directory))
            /\ response.user_count = Len(Flatten(directory))
            /\ stored = csv

C9_Witness ==
    /\ variant = "extract"
    /\ export_result.success
    /\ Len(directory) = MaxPages
    /\ Len(ListUsersCalls) = MaxPages
    /\ export_result.user_count > 3
    /\ Len(stored) = 1 + export_result.user_count

CallsOf(op) == SelectSeq(calls, LAMBDA c : c.op = op)

\* C10: create_bucket is called only right after a head_bucket call answered
\* with 404, on a bucket that does not exist, and at most once; the call
\* carries no CreateBucketConfiguration in us-east-1 and a LocationConstraint
\* equal to the region elsewhere; put_bucket_policy is called at most once,
\* after the probe found the bucket or create_bucket made it; a
\* create_s3_bucket that returned True has called put_bucket_policy once, and
\* one that returned False ended at a call the provider answered with an
\* error.
C10_CreateOnlyWhenAbsent ==
    /\ pc = "create_bucket" =>
        /\ last.op = "head_bucket" /\ last.res = "404"
        /\ ~bucket.exists
        /\ CallsOf("create_bucket") = <<>>
    /\ (pc = "put_bucket_policy" /\ last.op = "head_bucket") =>
        /\ last.res = "ok"
        /\ CallsOf("create_bucket") = <<>>
    /\ \A k \in DOMAIN calls :
        /\ calls[k].op = "create_bucket" =>
            /\ k > 1 /\ calls[k - 1].op = "head_bucket"
            /\ IF region = "us-east-1"
               THEN "CreateBucketConfiguration" \notin DOMAIN calls[k]
               ELSE /\ "CreateBucketConfiguration" \in DOMAIN calls[k]
                    /\ calls[k].CreateBucketConfiguration = [LocationConstraint |-> region]
        /\ calls[k].op = "put_bucket_policy" =>
            k > 1 /\ calls[k - 1].op \in {"head_bucket", "create_bucket"}
    /\ Len(CallsOf("create_bucket")) <= 1
    /\ Len(CallsOf("put_bucket_policy")) <= 1
    /\ \A k \in StepOf("create_s3_bucket") :
        /\ steps[k].returned = "True" =>
            /\ Len(CallsOf("put_bucket_policy")) = 1
            /\ bucket.exists /\ bucket.policy = bucket_policy(bucket_name)
        /\ steps[k].returned = "False" =>
            /\ last.op \in {"head_bucket", "create_bucket", "put_bucket_policy"}
            /\ last.res \notin {"ok", "404"}
        /\ (steps[k].returned = "pending" /\ pc = "put_bucket_policy") => bucket.exists

C10_Witness ==
    /\ region = "us-west-2"
    /\ \E k \in StepOf("create_s3_bucket") : steps[k].returned = "True"
    /\ Len(CallsOf("create_bucket")) = 1
    /\ CallsOf("create_bucket")[1].CreateBucketConfiguration.LocationConstraint = "us-west-2"
    /\ last.op = "put_bucket_policy"

BucketCalls == {"head_bucket", "create_bucket", "put_bucket_policy"}
TrailCalls == {"describe_trails", "create_trail", "put_event_selectors", "start_logging"}

\* the latest provider call was answered with an error the method does not
\* take for an answer (head_bucket's 404 is one it does)
Refused == last.res # "ok" /\ ~(last.op = "head_bucket" /\ last.res = "404")

\* C11: when a provider call of create_s3_bucket or setup_cloudtrail is
\* answered with a ClientError other than the probe's 404, the method has
\* returned False, run_setup has ended, and the call is the last one made:
\* after a failed head_bucket neither create_bucket nor put_bucket_policy has
\* been called, after a failed create_bucket no put_bucket_policy, and after
\* a failed call of the trail sequence none of the later calls of the
\* sequence.  No ClientError of these calls leaves the method as an exception.
C11_ProvisioningFailsClosed ==
    /\ steps # <<>> => pc # "raised"
    /\ (last.op \in BucketCalls /\ Refused) =>
        /\ \E k \in StepOf("create_s3_bucket") : steps[k].returned = "False"
        /\ SetupEnded
        /\ calls[Len(calls)].op = last.op
        /\ last.op = "head_bucket" =>
             CallsOf("create_bucket") = <<>> /\ CallsOf("put_bucket_policy") = <<>>
        /\ last.op = "create_bucket" => CallsOf("put_bucket_policy") = <<>>
    /\ (last.op \in TrailCalls /\ Refused) =>
        /\ \E k \in StepOf("setup_cloudtrail") : steps[k].returned = "False"
        /\ SetupEnded
        /\ calls[Len(calls)].op = last.op
        /\ last.op = "describe_trails" =>
             \A c \in Range(calls) :
                c.op \notin {"create_trail", "put_event_selectors", "start_logging"}
        /\ last.op = "create_trail" =>
             \A c \in Range(calls) : c.op \notin {"put_event_selectors", "start_logging"}
        /\ last.op = "put_event_selectors" => CallsOf("start_logging") = <<>>

C11_Witness ==
    /\ last.op = "put_event_selectors" /\ Refused
    /\ CallsOf("create_trail") # <<>>
    /\ CallsOf("start_logging") = <<>>
    /\ SetupEnded /\ setup_result = "False"

\* C12: create_trail is called only right after a describe_trails response
\* that lists no trail named QDeveloper3PTrail, at most once, with the bucket
\* of this run, key prefix 'cloudtrail', IsMultiRegionTrail and
\* EnableLogFileValidation true; put_event_selectors follows the listing that
\* found the trail or the creation, and start_logging follows
\* put_event_selectors, each at most once; a setup_cloudtrail that returned
\* True has called put_event_selectors and start_logging once each, and one
\* that returned False ended at a call the provider answered with an error.
C12_TrailCreatedOnlyWhenAbsent ==
    /\ pc = "create_trail" =>
        /\ last.op = "describe_trails" /\ last.res = "ok"
        /\ ~trails["QDeveloper3PTrail"].exists
        /\ CallsOf("create_trail") = <<>>
    /\ (pc = "put_event_selectors" /\ last.op = "describe_trails") =>
        /\ trails["QDeveloper3PTrail"].exists
        /\ CallsOf("create_trail") = <<>>
    /\ \A k \in DOMAIN calls :
        /\ calls[k].op = "create_trail" =>
            /\ calls[k - 1].op = "describe_trails"
            /\ calls[k] = [op |-> "create_trail", name |-> "QDeveloper3PTrail",
                           S3BucketName |-> bucket_name, S3KeyPrefix |-> "cloudtrail",
                           IsMultiRegionTrail |-> TRUE, EnableLogFileValidation |-> TRUE]
        /\ calls[k].op = "put_event_selectors" =>
            /\ calls[k - 1].op \in {"describe_trails", "create_trail"}
            /\ calls[k].name = "QDeveloper3PTrail"
        /\ calls[k].op = "start_logging" =>
            /\ calls[k - 1].op = "put_event_selectors"
            /\ calls[k].name = "QDeveloper3PTrail"
    /\ \A op \in TrailCalls : Len(CallsOf(op)) <= 1
    /\ \A k \in StepOf("setup_cloudtrail") :
        /\ steps[k].returned = "True" =>
            Len(CallsOf("put_event_selectors")) = 1 /\ Len(CallsOf("start_logging")) = 1
        /\ steps[k].returned = "False" => last.op \in TrailCalls /\ last.res # "ok"

C12_Witness ==
    /\ \E k \in StepOf("setup_cloudtrail") : steps[k].returned = "True"
    /\ Len(CallsOf("create_trail")) = 1
    /\ last.op = "start_logging"
    /\ region = "us-west-2"

\* C13: whenever setup_cloudtrail has returned True, the trail
\* QDeveloper3PTrail exists, delivers to the bucket of this run, carries the
\* three data-event selectors and is logging.
C13_SuccessfulTrailTargetsBucket ==
    \A k \in StepOf("setup_cloudtrail") :
        steps[k].returned = "True" =>
            /\ trails["QDeveloper3PTrail"].exists
            /\ trails["QDeveloper3PTrail"].bucket = bucket_name
            /\ {s.resources_type : s \in trails["QDeveloper3PTrail"].selectors}
                 = {"AWS::CodeWhisperer::Profile", "AWS::QDeveloper::Integration",
                    "AWS::CodeWhisperer::Customization"}
            /\ \A s \in trails["QDeveloper3PTrail"].selectors : s.eventCategory = "Data"
            /\ trails["QDeveloper3PTrail"].logging

\* C14: the trail name of cleanup differs from the trail name of setup for
\* every bucket name (it is longer than QDeveloper3PTrail whatever the bucket
\* name), and in a cleanup run that follows a run_setup that returned True
\* with the same bucket name, the trail of setup exists throughout and no
\* delete_trail call names it.
C14_CleanupMissesSetupTrail ==
    /\ \A b \in LifecycleBucketNames \cup BucketNames \cup {"", "QDeveloper3PTrail"} :
        /\ cleanup_trail_name(b) # "QDeveloper3PTrail"
        /\ Len(cleanup_trail_name(b)) > Len("QDeveloper3PTrail")
    /\ (entry = "run_cleanup" /\ setup_result = "True") =>
        /\ trails["QDeveloper3PTrail"].exists
        /\ \A c \in Range(calls) : c.op = "delete_trail" => c.name # "QDeveloper3PTrail"

C14_Witness ==
    /\ entry = "run_cleanup" /\ pc = "cleanup_done"
    /\ setup_result = "True"
    /\ CallsOf("create_trail") # <<>>
    /\ CallsOf("delete_trail") # <<>>
    /\ last = [op |-> "delete_bucket", name |-> bucket_name, res |-> "ok"]
    /\ trails["QDeveloper3PTrail"].exists

\* the event carries no bucket_name, or an empty one
MissingBucketName == "bucket_name" \notin DOMAIN event \/ event.bucket_name = ""

\* C15: for an event whose bucket_name is missing or empty, a handler only
\* ever is at its first statement or has returned; when it has returned, the
\* response is statusCode 400 with the message 'Missing required parameter:
\* bucket_name'; the component was never constructed (no bucket name was
\* stored, no method was called) and no provider call was made.
C15_MissingBucketNameIs400 ==
    MissingBucketName =>
        /\ pc \in {entry, "handler_done"}
        /\ pc = "handler_done" =>
            /\ response.statusCode = 400
            /\ response.message = "Missing required parameter: bucket_name"
        /\ bucket_name = ""
        /\ steps = <<>>
        /\ calls = <<>>
        /\ last = NoCall
        /\ setup_result = "pending"
        /\ export_result.message = "pending"

C15_Witness ==
    /\ entry = "extract_lambda_handler"
    /\ "bucket_name" \in DOMAIN event /\ event.bucket_name = ""
    /\ pc = "handler_done"
    /\ response.statusCode = 400
    /\ calls = <<>>

\* C16: when a handler has returned for an event with a non-empty
\* bucket_name, the setup handler's statusCode is 200 exactly when run_setup
\* returned True and 500 exactly when it returned False; the extraction
\* handler's statusCode is 200 exactly when the result's success is true and
\* 500 exactly when it is false, and its body carries the result's message
\* and the result's user_count, or 0 when the result has none.  A returned
\* status code is one of 200, 400, 500.
C16_StatusFollowsResult ==
    pc = "handler_done" =>
        /\ response.statusCode \in {200, 400, 500}
        /\ ~MissingBucketName =>
            IF entry = "setup_lambda_handler"
            THEN /\ setup_result \in {"True", "False"}
                 /\ response.statusCode = 200 <=> setup_result = "True"
                 /\ response.statusCode = 500 <=> setup_result = "False"
            ELSE /\ export_result.message # "pending"
                 /\ response.statusCode = 200 <=> export_result.success
                 /\ response.statusCode = 500 <=> ~export_result.success
                 /\ response.message = export_result.message
                 /\ response.user_count =
                      (IF "user_count" \in DOMAIN export_result
                       THEN export_result.user_count ELSE 0)
                 /\ "user_count" \notin DOMAIN export_result <=> ~export_result.success

C16_Witness ==
    /\ entry = "extract_lambda_handler"
    /\ pc = "handler_done"
    /\ response.statusCode = 200
    /\ response.user_count = Len(users)
    /\ Len(ListUsersCalls) > 1
    /\ Len(users) > 1

\* the export step of run_setup has returned
ExportStepReturned ==
    /\ steps # <<>>
    /\ steps[Len(steps)].method = "export_identity_center_users"
    /\ steps[Len(steps)].returned # "pending"

\* C17: in the setup Lambda, with export_users true and an Identity Center
\* instance, when the export step has returned and no provider call failed
\* (a failed call ends the export, so the latest call is the failed one), the
\* step returned True, put_object was called exactly once with the key
\* users/<output_file>, and the stored object is the header followed by one
\* row for each user of the directory.
C17_LambdaExportUploadsCsv ==
    (/\ variant = "lambda"
     /\ export_users
     /\ instances
     /\ ExportStepReturned
     /\ last.res = "ok") =>
        /\ steps[Len(steps)].returned = "True"
        /\ Len(CallsOf("put_object")) = 1
        /\ \A c \in Range(CallsOf("put_object")) : c.name = s3_key
        /\ stored = csv_rows(Flatten(directory))

\* C18: every row of the CSV has the five columns UserId, Username, Email,
\* GivenName, FamilyName in that order; the row of a user carries the user's
\* UserId and UserName, and the GivenName and FamilyName of the user's Name,
\* each the empty string when the field or the Name record is absent; its
\* Email is the Value of the first entry of Emails flagged Primary, and the
\* empty string when there are no entries or none is flagged.
C18_RowFollowsUser ==
    csv # <<>> =>
        /\ csv[1] = <<"UserId", "Username", "Email", "GivenName", "FamilyName">>
        /\ Len(csv) = 1 + Len(users)
        /\ \A k \in DOMAIN users :
            LET u == users[k]
                row == csv[k + 1]
                emails == IF "Emails" \in DOMAIN u THEN u.Emails ELSE <<>>
                flagged == {j \in DOMAIN emails :
                               "Primary" \in DOMAIN emails[j] /\ emails[j].Primary}
            IN /\ DOMAIN row = 1..5
               /\ row[1] = (IF "UserId" \in DOMAIN u THEN u.UserId ELSE "")
               /\ row[2] = (IF "UserName" \in DOMAIN u THEN u.UserName ELSE "")
               /\ flagged = {} => row[3] = ""
               /\ \A j \in flagged :
                    (\A i \in flagged : j <= i) => row[3] = emails[j].Value
               /\ row[4] = (IF "Name" \in DOMAIN u /\ "GivenName" \in DOMAIN u.Name
                            THEN u.Name.GivenName ELSE "")
               /\ row[5] = (IF "Name" \in DOMAIN u /\ "FamilyName" \in DOMAIN u.Name
                            THEN u.Name.FamilyName ELSE "")

C18_Witness ==
    /\ variant = "cli"
    /\ Len(csv) = 1 + Len(users)
    /\ stored = csv
    /\ \E k \in DOMAIN users :
        /\ users[k] = user_two_primary
        /\ csv[k + 1] = <<"", "erin", "erin@work", "", "">>
    /\ \E k \in DOMAIN users :
        /\ users[k] = user_no_primary
        /\ csv[k + 1] = <<"u-4", "dan", "", "", "Dunn">>
    /\ \E k \in DOMAIN users :
        /\ users[k] = user_second_primary
        /\ csv[k + 1][3] = "carol@work"

\* the export has returned to its caller
ExportEnded == pc = "export_done" \/ (pc = "handler_done" /\ ~MissingBucketName)

UploadCalls == SelectSeq(calls, LAMBDA c : c.op \in {"put_object", "upload_file"})

\* C19: the export never leaves by an exception: once started it is at one of
\* its statements or has returned a result.  Without an Identity Center
\* instance it never calls list_users and never uploads, and it returns
\* failure (extract_users with the message 'No IAM Identity Center instances
\* found'); when its latest provider call failed with a ClientError or any
\* other exception it has returned failure, and extract_users names a
\* ClientError with a message beginning 'Error exporting IAM Identity Center
\* users'; it returns success only after an upload that succeeded.
C19_ExportFailsWithoutRaising ==
    /\ pc \in {"extract_lambda_handler", "list_instances", "list_users", "write_csv",
               "upload", "export_done", "handler_done"}
    /\ ~instances =>
        /\ ListUsersCalls = <<>>
        /\ UploadCalls = <<>>
        /\ ExportEnded =>
            /\ ~export_result.success
            /\ (variant = "extract" /\ last.res = "ok") =>
                 export_result.message = "No IAM Identity Center instances found"
    /\ (last.op # "" /\ last.res # "ok") =>
        /\ ExportEnded
        /\ ~export_result.success
        /\ (variant = "extract" /\ last.res = "ClientError") =>
             export_result.message = "Error exporting IAM Identity Center users"
        /\ (variant = "extract" /\ last.res = "Exception") =>
             export_result.message = "Unexpected error exporting users"
    /\ (ExportEnded /\ export_result.success) =>
        /\ last.res = "ok"
        /\ last.op \in {"put_object", "upload_file"}
        /\ Len(UploadCalls) = 1

C19_Witness ==
    /\ variant = "extract"
    /\ pc = "handler_done"
    /\ last.op = "list_users" /\ last.res = "ClientError"
    /\ Len(ListUsersCalls) > 1
    /\ ~export_result.success
    /\ export_result.message = "Error exporting IAM Identity Center users"
    /\ response.statusCode = 500

\* C20: when the export of the setup script has returned after creating the
\* temporary file, the file is closed and removed, and the export returned
\* True only if the upload succeeded.
C20_TempFileRemoved ==
    (variant = "cli" /\ ExportEnded /\ temp_file # "none") =>
        /\ temp_file = "removed"
        /\ export_result.success => (last.op = "upload_file" /\ last.res = "ok")

\* the parts of C20 the script keeps on every path: the file is closed when
\* the export returns, and True is returned only after a successful upload
C20_TempFileClosed ==
    (variant = "cli" /\ ExportEnded /\ temp_file # "none") =>
        /\ temp_file \in {"closed", "removed"}
        /\ export_result.success => (last.op = "upload_file" /\ last.res = "ok")

\* the answer is the word yes in any mix of upper and lower case
TypedYes ==
    /\ Len(event.answer) = 3
    /\ event.answer[1] \in {"y", "Y"}
    /\ event.answer[2] \in {"e", "E"}
    /\ event.answer[3] \in {"s", "S"}

\* the account is as it was before the script started
Untouched ==
    \E a \in GateAccounts :
        /\ rules = a.rules
        /\ functions = a.functions
        /\ roles = a.roles
        /\ trails[cleanup_trail_name(event.bucket_name)] = a.trail
        /\ bucket = a.bucket

\* C21: without --confirm and with an answer that is not yes in some mix of
\* cases, main only ever is at the prompt or has cancelled: the cleanup
\* object was never constructed, no provider call was made and the account
\* is untouched.  With --confirm, or with such an answer, main never
\* cancels; with --confirm no prompt is printed.  Provider calls are made
\* only by run_cleanup.
C21_ConfirmationGate ==
    /\ (~event.confirm /\ ~TypedYes) =>
        /\ entry = "main"
        /\ pc \in {"main_confirm", "cancelled"}
        /\ bucket_name = "" /\ region = ""
        /\ calls = <<>>
        /\ Untouched
    /\ (event.confirm \/ TypedYes) => pc # "cancelled"
    /\ event.confirm => \A k \in DOMAIN out : out[k].kind # "prompt"
    /\ calls # <<>> => entry = "run_cleanup"
    /\ entry = "main" => Untouched

C21_Witness ==
    /\ ~event.confirm
    /\ event.answer = <<" ", "Y", "E", "S">>
    /\ pc = "cancelled"
    /\ calls = <<>>
    /\ Untouched

\* the provider calls of bucket and trail provisioning
ProvisioningOps ==
    {"head_bucket", "create_bucket", "put_bucket_policy", "describe_trails",
     "create_trail", "put_event_selectors", "start_logging"}

\* the provider calls the setup path makes at all
SetupOps ==
    ProvisioningOps \cup {"get_caller_identity", "list_instances", "list_users",
                          "put_object", "upload_file"}

\* a step of the setup path takes nothing away from bucket or trail
NothingRemoved ==
    /\ bucket.exists => bucket'.exists
    /\ bucket'.entries = bucket.entries
    /\ bucket'.versioned = bucket.versioned
    /\ bucket'.policy \in {bucket.policy, bucket_policy(bucket_name)}
    /\ \A n \in TrailNames :
        /\ trails[n].exists => (trails'[n].exists /\ trails'[n].bucket = trails[n].bucket)
        /\ trails[n].logging => trails'[n].logging
        /\ trails'[n].selectors \in {trails[n].selectors, advanced_event_selectors}

\* C22: in one run_setup each of head_bucket, create_bucket,
\* put_bucket_policy, describe_trails, create_trail, put_event_selectors and
\* start_logging is called at most once and no call other than the setup
\* calls (in particular no delete call) is made; no step removes the bucket,
\* changes its objects, removes the trail, retargets it or stops its logging;
\* and when run_setup has returned False, a bucket, policy or trail that an
\* earlier call of the run created is in place.
C22_NoRetryNoRollback ==
    /\ [](/\ \A op \in ProvisioningOps : Len(CallsOf(op)) <= 1
          /\ \A c \in Range(calls) : c.op \in SetupOps
          /\ setup_result = "False" =>
              /\ (CallsOf("create_bucket") # <<>> /\ last.op # "create_bucket")
                    => bucket.exists
              /\ (CallsOf("put_bucket_policy") # <<>> /\ last.op # "put_bucket_policy")
                    => bucket.policy = bucket_policy(bucket_name)
              /\ (CallsOf("create_trail") # <<>> /\ last.op # "create_trail")
                    => (/\ trails[setup_trail_name].exists
                        /\ trails[setup_trail_name].bucket = bucket_name))
    /\ [][NothingRemoved]_vars

C22_Witness ==
    /\ setup_result = "False"
    /\ CallsOf("create_bucket") # <<>>
    /\ CallsOf("create_trail") # <<>>
    /\ last.op = "start_logging" /\ last.res # "ok"
    /\ bucket.exists /\ bucket.policy = bucket_policy(bucket_name)
    /\ trails[setup_trail_name].exists
    /\ trails[setup_trail_name].selectors = advanced_event_selectors
    /\ ~trails[setup_trail_name].logging

\* C23: a teardown call that the provider answers with an error other than
\* the not-found code of its service makes the script print an error line,
\* and the step that met the error does not report the bucket as emptied.
C23_ErrorsAreLogged ==
    [][ (calls' # calls /\ last'.res \notin {"ok", NotFoundCode(last'.op)}) =>
            /\ \E k \in DOMAIN out' : out'[k].kind = "error"
            /\ \A k \in DOMAIN out' : out'[k] # emptied' ]_vars

\* the part of C23 the script keeps: outside the versions pass of
\* empty_s3_bucket every such error makes the script print an error line
C23_ErrorsAreLoggedOutsideVersions ==
    [][ (/\ calls' # calls
         /\ last'.res \notin {"ok", NotFoundCode(last'.op)}
         /\ last'.op \notin {"list_object_versions", "delete_object_versions"}) =>
            /\ \E k \in DOMAIN out' : out'[k].kind = "error"
            /\ \A k \in DOMAIN out' : out'[k] # emptied' ]_vars

\* the position in the teardown order of the resource type a call works on
Phase(op) ==
    CASE op \in {"list_targets_by_rule", "remove_targets", "delete_rule"} -> 1
      [] op = "delete_function" -> 2
      [] op \in {"delete_role_policy", "delete_role"} -> 3
      [] op = "delete_trail" -> 4
      [] op \in {"head_bucket", "list_objects_v2", "delete_objects",
                 "list_object_versions", "delete_object_versions"} -> 5
      [] op = "delete_bucket" -> 6

\* C24: in run_cleanup the calls on schedule rules come before the calls on
\* functions, those before the calls on roles, then the trail, then the
\* calls that empty the bucket, then delete_bucket: every delete_rule
\* precedes every delete_function, every delete_function precedes every
\* delete_role, and every call of empty_s3_bucket precedes delete_bucket.
\* Whatever the earlier calls answered, a finished run has attempted
\* delete_function for both functions, delete_role_policy for both roles,
\* delete_trail, the bucket probe and delete_bucket, once each.
C24_TeardownOrder ==
    entry = "run_cleanup" =>
        /\ \A j \in DOMAIN calls : \A k \in DOMAIN calls :
              j < k => Phase(calls[j].op) <= Phase(calls[k].op)
        /\ \A j \in DOMAIN calls : \A k \in DOMAIN calls :
              /\ (calls[j].op = "delete_rule" /\ calls[k].op = "delete_function") => j < k
              /\ (calls[j].op = "delete_function" /\ calls[k].op = "delete_role") => j < k
              /\ (Phase(calls[j].op) = 5 /\ calls[k].op = "delete_bucket") => j < k
        /\ CallsOf("delete_bucket") # <<>> =>
              /\ CallsOf("head_bucket") # <<>>
              /\ pc = "cleanup_done"
        /\ pc = "cleanup_done" =>
              /\ Len(CallsOf("list_targets_by_rule")) = 2
              /\ Len(CallsOf("delete_function")) = 2
              /\ Len(CallsOf("delete_role_policy")) = 2
              /\ Len(CallsOf("delete_trail")) = 1
              /\ Len(CallsOf("head_bucket")) = 1
              /\ Len(CallsOf("delete_bucket")) = 1

C24_Witness ==
    /\ entry = "run_cleanup"
    /\ pc = "cleanup_done"
    /\ Len(CallsOf("delete_rule")) = 1
    /\ Len(CallsOf("delete_role")) = 2
    /\ CallsOf("delete_object_versions") # <<>>
    /\ last.op = "delete_bucket" /\ last.res = "ok"

\* the constructor's caller-identity calls mark where each run starts
RunStarts == {k \in DOMAIN calls : calls[k].op = "get_caller_identity"}
SecondRunStart == IF Cardinality(RunStarts) < 2 THEN Len(calls) + 1 ELSE Max(RunStarts)
FirstRunCalls == SubSeq(calls, 1, SecondRunStart - 1)
SecondRunCalls == SubSeq(calls, SecondRunStart, Len(calls))
InRun(log, op) == SelectSeq(log, LAMBDA c : c.op = op)

\* the first of the two runs returned True
FirstRunSucceeded ==
    /\ entry = "setup_main_again"
    /\ \E k \in StepOf("setup_cloudtrail") :
        /\ steps[k].returned = "True"
        /\ \/ Cardinality(StepOf("create_s3_bucket")) = 1
           \/ k < Max(StepOf("create_s3_bucket"))

\* C25: in a second run_setup that follows a run that returned True with the
\* same bucket name, no step changes the remote state (bucket, policy,
\* trail, selectors, logging), so the state after the second run is the state
\* after the first; the second run calls neither create_bucket nor
\* create_trail; and when it too has returned True it has called
\* put_bucket_policy, put_event_selectors and start_logging once each, with
\* the arguments of the first run's calls.
C25_SetupIsRepeatable ==
    /\ [](FirstRunSucceeded =>
            /\ InRun(SecondRunCalls, "create_bucket") = <<>>
            /\ InRun(SecondRunCalls, "create_trail") = <<>>
            /\ (pc = "main_done" /\ setup_result = "True") =>
                \A op \in {"put_bucket_policy", "put_event_selectors", "start_logging"} :
                    /\ Len(InRun(SecondRunCalls, op)) = 1
                    /\ InRun(SecondRunCalls, op) = InRun(FirstRunCalls, op))
    /\ [][FirstRunSucceeded => (bucket' = bucket /\ trails' = trails)]_vars

C25_Witness ==
    /\ FirstRunSucceeded
    /\ pc = "main_done" /\ setup_result = "True"
    /\ Len(CallsOf("create_bucket")) = 1
    /\ Len(CallsOf("create_trail")) = 1
    /\ Len(CallsOf("put_bucket_policy")) = 2
    /\ Len(CallsOf("start_logging")) = 2
    /\ trails[setup_trail_name].logging

\* the statements of policy p granted to principal for exactly the actions
StatementsFor(p, principal, actions) ==
    {s \in p : s.Effect = "Allow" /\ s.Principal = principal /\ s.Action = actions}

\* C26: once create_s3_bucket has returned True, the bucket's policy has
\* exactly three statements: Amazon Q may get, list and put on the bucket
\* and its objects; CloudTrail may read the bucket's ACL; CloudTrail may put
\* objects under cloudtrail/ on condition of the bucket-owner-full-control
\* ACL.  No statement of an earlier policy is left, and the objects the
\* bucket held (the export's object is kept apart, in stored) are unchanged
\* by every step.
C26_PolicyIsReplaced ==
    /\ [](\A k \in StepOf("create_s3_bucket") : steps[k].returned = "True" =>
            LET arn == "arn:aws:s3:::" \o bucket_name
                q == StatementsFor(bucket.policy, "q.amazonaws.com",
                                   {"s3:GetObject", "s3:ListBucket", "s3:PutObject"})
                acl == StatementsFor(bucket.policy, "cloudtrail.amazonaws.com",
                                     {"s3:GetBucketAcl"})
                write == StatementsFor(bucket.policy, "cloudtrail.amazonaws.com",
                                       {"s3:PutObject"})
            IN /\ bucket.exists
               /\ Cardinality(bucket.policy) = 3
               /\ Cardinality(q) = 1 /\ Cardinality(acl) = 1 /\ Cardinality(write) = 1
               /\ \A s \in q : s.Resource = {arn, arn \o "/*"} /\ s.Condition = {}
               /\ \A s \in acl : s.Resource = {arn} /\ s.Condition = {}
               /\ \A s \in write :
                    /\ s.Resource = {arn \o "/cloudtrail/*"}
                    /\ s.Condition =
                         {<<"StringEquals", "s3:x-amz-acl", "bucket-owner-full-control">>}
               /\ \A s \in bucket.policy : s.Sid # "PublicRead")
    /\ [][bucket'.entries = bucket.entries /\ bucket'.versioned = bucket.versioned]_vars

C26_Witness ==
    /\ \E k \in StepOf("create_s3_bucket") : steps[k].returned = "True"
    /\ CallsOf("create_bucket") = <<>>
    /\ bucket.entries = {Entry(1, 0, FALSE)}
    /\ Cardinality(bucket.policy) = 3
    /\ custom_policy \cap bucket.policy = {}

\* C27: for an event with a non-empty bucket_name the setup handler never
\* ends by an exception, whichever provider call failed, the constructor's
\* caller-identity lookup included: a failed call of the run is followed by
\* a returned response, and a returned response has statusCode 200 or 500.
C27_SetupHandlerAlwaysAnswers ==
    (entry = "setup_lambda_handler" /\ ~MissingBucketName) =>
        /\ pc # "raised"
        /\ (last.op # "" /\ last.res \notin {"ok", "404"} /\ last.op \in SetupOps) =>
              pc = "handler_done"
        /\ pc = "handler_done" => response.statusCode \in {200, 500}

\* the part of C27 the handler keeps: a failure of any call after the
\* constructor is answered with a response of statusCode 200 or 500
C27_AnswersAfterConstruction ==
    (entry = "setup_lambda_handler" /\ ~MissingBucketName) =>
        /\ pc = "raised" => (last.op = "get_caller_identity" /\ steps = <<>>)
        /\ (last.op # "" /\ last.res \notin {"ok", "404"}
              /\ last.op \in SetupOps \ {"get_caller_identity"}) =>
                (pc = "handler_done" /\ response.statusCode \in {200, 500})
        /\ pc = "handler_done" => response.statusCode \in {200, 500}

\* C28: an upload call is made only when the pagination loop has ended,
\* having asked for every page and collected the users of all of them; when
\* a list_users call failed, on the first page or a later one, the export
\* has returned without an upload call; the object at users/<output_file>
\* changes only by an upload that succeeded, and then holds the header and
\* the rows of the users of all pages.
C28_UploadAfterPagination ==
    /\ [](/\ UploadCalls # <<>> =>
              /\ Len(ListUsersCalls) = Len(directory)
              /\ users = Flatten(directory)
              /\ Len(UploadCalls) = 1
          /\ (last.op = "list_users" /\ last.res # "ok") =>
              /\ ExportEnded
              /\ UploadCalls = <<>>
              /\ ~export_result.success)
    /\ [][stored' # stored =>
            /\ last'.op \in {"put_object", "upload_file"}
            /\ last'.res = "ok"
            /\ Len(stored') = 1 + Len(Flatten(directory))
            /\ \A k \in DOMAIN Flatten(directory) :
                  stored'[k + 1][2] = Get(Flatten(directory)[k], "UserName", "")]_vars

C28_Witness ==
    /\ last.op = "list_users" /\ last.res = "ClientError"
    /\ Len(ListUsersCalls) = MaxPages
    /\ users # <<>>
    /\ ExportEnded
    /\ UploadCalls = <<>>
    /\ stored = <<fieldnames>>

\* C29: when the lines run_setup prints at its end hold 'IAM Identity Center
\* users exported to s3://<bucket>/users/<output_file>', the export step of
\* the run returned True and the object is stored at that key.
C29_ReportIsTruthful ==
    (\E k \in DOMAIN out : out[k] = Line("users_exported", "s3", s3_key)) =>
        /\ ExportStepReturned
        /\ steps[Len(steps)].returned = "True"
        /\ export_result.success
        /\ stored # NoObject

\* bucket and trail are as an error-free run_setup leaves them
Provisioned ==
    /\ bucket.exists
    /\ bucket.policy = bucket_policy(bucket_name)
    /\ trails[setup_trail_name].exists
    /\ trails[setup_trail_name].selectors = advanced_event_selectors
    /\ trails[setup_trail_name].logging

\* what a run_setup keeps of the state it starts from: the bucket's objects
\* and versioning, and the bucket an existing trail delivers to; a trail it
\* creates delivers to the run's bucket
KeptByRunSetup ==
    /\ bucket'.entries = bucket.entries
    /\ bucket'.versioned = bucket.versioned
    /\ trails[setup_trail_name].exists =>
          trails'[setup_trail_name].bucket = trails[setup_trail_name].bucket
    /\ (~trails[setup_trail_name].exists /\ trails'[setup_trail_name].exists) =>
          trails'[setup_trail_name].bucket = bucket_name

\* the run that is ended met no provider error (the error injected into a call)
EndedWithoutError == pc = "main_done" /\ last.res # OtherError

\* C30: a run_setup that meets no provider error returns True and leaves
\* bucket and trail provisioned, whether it is the only run or a second run
\* after a first one that failed at any step; and every step of either run
\* keeps the bucket's objects and an existing trail's target, and gives a
\* trail it creates the run's bucket.  The second run therefore reaches the
\* state a single error-free run reaches from the original state.
C30_RerunRepairs ==
    /\ [](EndedWithoutError => (setup_result = "True" /\ Provisioned))
    /\ [][KeptByRunSetup]_vars

C30_Witness ==
    /\ entry = "setup_main_again"
    /\ ~FirstRunSucceeded
    /\ FirstRunCalls[Len(FirstRunCalls)].op = "put_event_selectors"
    /\ InRun(FirstRunCalls, "create_bucket") # <<>>
    /\ InRun(FirstRunCalls, "create_trail") # <<>>
    /\ InRun(SecondRunCalls, "create_trail") = <<>>
    /\ EndedWithoutError
    /\ setup_result = "True"
    /\ Provisioned

====
